---- MODULE Spec2Model ----
(***************************************************************************)
(* Position Lifecycle Manager (src/src/trade_manager.py, TradeManager) and *)
(* its collaborators, as a state machine.                                  *)
(*                                                                         *)
(* Every coroutine of TradeManager is cut at the points where it really    *)
(* suspends (the HTTP round trips of JupiterClient); the code between two  *)
(* suspensions runs without interleaving on the asyncio event loop and is  *)
(* one action here.  A task t is one caller of the manager.                *)
(*                                                                         *)
(* Units.  USD prices and USDC sizes are the floats of the code restricted *)
(* to whole numbers on which the code's float arithmetic is exact: entry   *)
(* prices are multiples of 100 (so price * 0.85 and price * 1.30 are       *)
(* whole), and swap out-amounts are multiples of 10^6 smallest units (so   *)
(* out_amount / 10^6 is whole).                                            *)
(***************************************************************************)
EXTENDS Integers, Sequences, FiniteSets, TLC

\* ------------------------------------------------------------------ bounds

\* Top-level calls of the manager started in one run.
MaxCalls == 2

\* Cycles each loop of the bot starts in one run.
MaxCycles == 2

\* Candles of one backtest run.
MaxCandles == 4

\* Length of the histories enumerated in full for the signal evaluator.
MaxHistory == 2

\* The calls of run on one engine.
MaxRuns == 2

\* The length of the candle sequences that reach past the volume window.
MaxLongCandles == 22

\* Calls made on one StrategyEvolver, variants asked of generate_variants
\* and results handed to select_best.
MaxEvolverCalls == 3

MaxVariants == 2

MaxResults == 2

\* detect calls made on one RegimeDetector.
MaxDetects == 3

\* ---------------------------------------------------------- configuration

MAX_POSITION_SIZE_USDC == 50

MAX_SIMULTANEOUS_POSITIONS == 3

STOP_LOSS_PERCENT == -15

TAKE_PROFIT_PERCENT == 30

\* decimals = 6 (tokens) and 1_000_000 (USDC): smallest units per whole unit.
UNITS == 1000000

\* ----------------------------------------------------------------- inputs

Tasks == {"t1", "t2"}

\* The task of the sequential specification.
MainTask == "t1"

Mints == {"m1", "m2", "m3", "m4"}

NoMint == "none"

\* The symbol the scanner reports with each mint.
SymbolOf == [m \in Mints |-> CASE m = "m1" -> "AAA" [] m = "m2" -> "BBB"
                                   [] m = "m3" -> "CCC" [] OTHER -> "DDD"]

\* price_usd handed to open_position (0: the scanner's "price unknown").
Prices == {0, 100}

\* amount_usdc handed to open_position.
Amounts == {0, 20, 80}

\* reason handed to close_position by a direct caller.
Reasons == {"manual"}

\* outAmount of a buy quote that has one, in smallest token units.
BuyOutAmounts == {5 * UNITS}

\* outAmount of a sell quote that has one, in smallest USDC units.
SellOutAmounts == {10 * UNITS, 60 * UNITS}

\* Prices the price feed may report.
FeedPrices == {0, 110}

\* ------------------------------------------------------------- Position

PositionFields ==
    {"mint", "symbol", "entry_price_usd", "entry_time", "position_size_usdc",
     "token_amount", "stop_loss_price", "take_profit_price",
     "current_price_usd", "realized_pnl_usd"}

Position(mint, symbol, entry_price_usd, entry_time, position_size_usdc, token_amount, stop_loss_price, take_profit_price, current_price_usd, realized_pnl_usd) ==
    [mint |-> mint, symbol |-> symbol, entry_price_usd |-> entry_price_usd,
     entry_time |-> entry_time, position_size_usdc |-> position_size_usdc,
     token_amount |-> token_amount, stop_loss_price |-> stop_loss_price,
     take_profit_price |-> take_profit_price,
     current_price_usd |-> current_price_usd,
     realized_pnl_usd |-> realized_pnl_usd]

\* The value of a frame's position variable while it refers to nothing.
NoPosition == Position(NoMint, "", 0, 0, 0, 0, 0, 0, 0, 0)

should_stop_loss(p) == p.current_price_usd <= p.stop_loss_price

should_take_profit(p) == p.current_price_usd >= p.take_profit_price

\* asdict(self): the dictionary of the ten dataclass fields.
to_dict(p) == [f \in PositionFields |-> p[f]]

\* (mutant) the two exit levels change places
from_dict_swapped(data) ==
    Position(data["mint"], data["symbol"], data["entry_price_usd"],
             data["entry_time"], data["position_size_usdc"],
             data["token_amount"], data["take_profit_price"],
             data["stop_loss_price"], data["current_price_usd"],
             data["realized_pnl_usd"])

\* cls(**data) raises TypeError for a record with a missing or an unknown key.
from_dict_raises(data) == DOMAIN data # PositionFields

\* cls(**data)
from_dict(data) ==
    Position(data["mint"], data["symbol"], data["entry_price_usd"],
             data["entry_time"], data["position_size_usdc"],
             data["token_amount"], data["stop_loss_price"],
             data["take_profit_price"], data["current_price_usd"],
             data["realized_pnl_usd"])

\* The log line of close_position and Position.__str__ divide by
\* position_size_usdc (unrealized_pnl_percent).
unrealized_pnl_percent_raises(p) == p.position_size_usdc = 0

\* ------------------------------------ self.positions: an insertion-ordered dict
\* A dict is the sequence of its values in insertion order; the key of a value
\* is its mint.

dict_keys(d) == [i \in 1..Len(d) |-> d[i].mint]

dict_contains(d, mint) == \E i \in 1..Len(d) : d[i].mint = mint

dict_index(d, mint) == CHOOSE i \in 1..Len(d) : d[i].mint = mint

dict_getitem(d, mint) == d[dict_index(d, mint)]

\* d[mint] = p: a present key keeps its place, a new key goes last.
dict_setitem(d, mint, p) ==
    IF dict_contains(d, mint)
    THEN [d EXCEPT ![dict_index(d, mint)] = p]
    ELSE Append(d, p)

\* del d[mint], for a present key.
dict_delitem(d, mint) == SelectSeq(d, LAMBDA p : p.mint # mint)


\* ------------------------------------------------------- persisted files

\* config.STATE_FILE before anything was saved.
NoFile ==
    [exists |-> FALSE, parseable |-> FALSE, positions |-> <<>>, last_updated |-> 0]

\* The file after open(state_file, "w") and before json.dump has written and
\* flushed all of the object: empty or cut off, not parseable as JSON.
PartialFile ==
    [exists |-> TRUE, parseable |-> FALSE, positions |-> <<>>, last_updated |-> 0]

\* json.dump({"positions": {k: v.to_dict()}, "last_updated": time.time()})
\* over the file opened with "w".
_save_state(d, now) ==
    [exists |-> TRUE,
     parseable |-> TRUE,
     positions |-> [i \in 1..Len(d) |-> to_dict(d[i])],
     last_updated |-> now]

\* The saved records _load_state gets through: all of them, or those before
\* the first one from_dict raises on (the except clause ends the loop and
\* keeps what was loaded).
loaded_count(file) ==
    LET bad == {i \in 1..Len(file.positions) : from_dict_raises(file.positions[i])}
    IN  IF bad = {}
        THEN Len(file.positions)
        ELSE (CHOOSE i \in bad : \A j \in bad : i <= j) - 1

\* The position set a manager is constructed with: empty when there is no
\* file or json.load raises, else Position.from_dict of the saved records in
\* the file's order, as far as the loop gets.
_load_state(file) ==
    IF ~file.exists \/ ~file.parseable
    THEN <<>>
    ELSE [i \in 1..loaded_count(file) |-> from_dict(file.positions[i])]

\* The record _log_trade appends to trade_history and to the JSONL file.
_log_trade(action, position, reason, now) ==
    [timestamp |-> now,
     action |-> action,
     mint |-> position.mint,
     symbol |-> position.symbol,
     entry_price |-> position.entry_price_usd,
     current_price |-> position.current_price_usd,
     position_size_usdc |-> position.position_size_usdc,
     token_amount |-> position.token_amount,
     pnl_usd |-> IF action = "CLOSE" THEN position.realized_pnl_usd ELSE 0,
     reason |-> reason]

\* ------------------------------------------------------ open_position: sizing

Min(a, b) == IF a <= b THEN a ELSE b

\* (mutant) the size is not clamped
position_size_unclamped(amount_usdc) == amount_usdc

\* position_size = min(amount_usdc, config.MAX_POSITION_SIZE_USDC)
position_size_of(amount_usdc) == Min(amount_usdc, MAX_POSITION_SIZE_USDC)

\* price_usd * (1 + config.STOP_LOSS_PERCENT / 100)
stop_loss_price_of(price_usd) == (price_usd * (100 + STOP_LOSS_PERCENT)) \div 100

\* price_usd * (1 + config.TAKE_PROFIT_PERCENT / 100)
take_profit_price_of(price_usd) ==
    (price_usd * (100 + TAKE_PROFIT_PERCENT)) \div 100

\* ------------------------------------------------------- Jupiter responses

\* What get_quote returns: None (status != 200, exception), or the JSON
\* object of the response, which may be empty or lack "outAmount".
NoQuote == [kind |-> "None", has_outAmount |-> FALSE, outAmount |-> 0]

EmptyQuote == [kind |-> "empty", has_outAmount |-> FALSE, outAmount |-> 0]

QuoteResponses(outs) ==
    {NoQuote, EmptyQuote,
     [kind |-> "dict", has_outAmount |-> FALSE, outAmount |-> 0]}
    \cup {[kind |-> "dict", has_outAmount |-> TRUE, outAmount |-> a] : a \in outs}

\* `not quote`: None and the empty dict are falsy.
quote_falsy(q) == q.kind \in {"None", "empty"}

\* int(quote.get("outAmount", 0))
quote_outAmount(q) == IF q.has_outAmount THEN q.outAmount ELSE 0

\* What get_swap_transaction returns: None or the transaction's bytes.
SwapResponses == {"None", "bytes"}

\* One entry of the price feed's "data" object for a mint: absent, a JSON
\* number or a JSON string.
PriceData ==
    {[kind |-> "absent", val |-> 0]}
    \cup {[kind |-> "num", val |-> v] : v \in FeedPrices}
    \cup {[kind |-> "str", val |-> 0]}

\* `if price:` a missing price, None and the number 0 are falsy; a non-empty
\* string is truthy whatever it spells.
price_truthy(x) == x.kind = "str" \/ (x.kind = "num" /\ x.val # 0)

\* get_token_prices: {} unless the status is 200, else float(price) for
\* every asked mint whose price is truthy.
get_token_prices(mints, status, data) ==
    IF status # 200
    THEN <<>>
    ELSE LET priced == {m \in mints : price_truthy(data[m])}
         IN  [m \in priced |-> data[m].val]

HttpStatuses == {200, 500}


\* ------------------------------------------------------------------ state

VARIABLES
    positions,       \* self.positions, in insertion order
    trade_history,   \* self.trade_history
    state_file,      \* config.STATE_FILE
    trades_file,     \* config.TRADES_LOG_FILE, one record per line
    clock,           \* what time.time() / datetime.now() returns next
    pc,              \* per task: where its coroutine is suspended
    frame,           \* per task: the arguments and locals of its coroutine
    ret,             \* per task: how its last call ended
    log,             \* per task: the last outcome line a call of it logged
    http,            \* per task: the price feed's response that has arrived
    quote_requests,  \* get_quote calls made
    executed,        \* per side and mint: "Buy executed" / "Sell executed" lines
    calls,           \* top-level calls started
    running,         \* MomentumBot.running
    loops,           \* per loop of MomentumBot: where it is, cycles, exceptions
    bt,              \* a call of a BacktestEngine method: arguments and locals
    evolver,         \* the StrategyEvolver and how its last call ended
    detector         \* the RegimeDetector and how its last call ended

manager_vars ==
    <<positions, trade_history, state_file, trades_file, clock, pc, frame, ret,
      log, http, quote_requests, executed, calls>>

loop_vars == <<running, loops>>

\* What no operation of the TradeManager touches.
outside_manager == <<loop_vars, bt, evolver, detector>>

vars == <<manager_vars, loop_vars, bt, evolver, detector>>

\* The arguments and locals of a coroutine that is not running.
IdleFrame ==
    [op |-> "none", caller |-> "none",
     mint |-> NoMint, symbol |-> "", price_usd |-> 0, amount_usdc |-> 0,
     reason |-> "", position_size |-> 0, stop_loss_price |-> 0,
     take_profit_price |-> 0, amount |-> 0,
     position |-> NoPosition, quote |-> NoQuote,
     actions |-> <<>>, mints |-> <<>>, prices |-> <<>>, it_pos |-> 0,
     it_used |-> 0,
     it_keys |-> <<>>,
     attempted |-> {}]

\* An outcome line of the logger and the instrument of the call it ends.
Log(msg, mint) == [msg |-> msg, mint |-> mint]

NoLog == Log("", NoMint)

\* No response of the price feed is waiting for the task.
NoResponse == [status |-> 0, data |-> <<>>]

\* How a call ended: its return value or the exception it raised.
NoReturn == [kind |-> "pending", value |-> 0]

ReturnNone == [kind |-> "None", value |-> 0]

Return(kind, value) == [kind |-> kind, value |-> value]

Raise(exception) == [kind |-> "raise", value |-> exception]

\* --------------------------------------------------------------- startup

\* Snapshots a previous run may have left: up to the configured maximum of
\* positions, each as open_position records it (the second one entered at
\* the scanner's price 0).
SavedPosition(mint, price_usd, entry_time) ==
    Position(mint, SymbolOf[mint], price_usd, entry_time, 20, 5,
             stop_loss_price_of(price_usd), take_profit_price_of(price_usd),
             price_usd, 0)

InitialMints == <<"m1", "m2", "m3">>

InitialPrices == <<100, 0, 100>>

InitialStateFiles ==
    {NoFile} \cup
        {_save_state([i \in 1..n |->
                         SavedPosition(InitialMints[i], InitialPrices[i], i)],
                     n + 1) :
        n \in 0..MAX_SIMULTANEOUS_POSITIONS}

\* A saved record from_dict cannot take: one written without realized_pnl_usd.
DamagedRecord(p) == [f \in PositionFields \ {"realized_pnl_usd"} |-> p[f]]

\* Snapshots _load_state cannot wholly read: a file that is not JSON, and
\* files of up to the maximum of records of which the k-th is damaged.
DamagedStateFiles ==
    {PartialFile} \cup
        {[exists |-> TRUE,
          parseable |-> TRUE,
          positions |->
              [i \in 1..n |->
                  LET p == SavedPosition(InitialMints[i], InitialPrices[i], i)
                  IN  IF i = k THEN DamagedRecord(p) ELSE to_dict(p)],
          last_updated |-> n + 1] :
        n \in 1..MAX_SIMULTANEOUS_POSITIONS, k \in 1..MAX_SIMULTANEOUS_POSITIONS}

\* TradeManager.__init__ with the snapshot file as it is.
__init__ ==
    /\ positions = _load_state(state_file)
    /\ trade_history = <<>>
    /\ trades_file =
           [i \in 1..Len(positions) |->
               _log_trade("OPEN", positions[i], "", positions[i].entry_time)]
    /\ clock = state_file.last_updated + 1
    /\ pc = [t \in Tasks |-> "idle"]
    /\ frame = [t \in Tasks |-> IdleFrame]
    /\ ret = [t \in Tasks |-> NoReturn]
    /\ log = [t \in Tasks |-> NoLog]
    /\ http = [t \in Tasks |-> NoResponse]
    /\ quote_requests = 0
    /\ executed = [side \in {"buy", "sell"} |-> [m \in Mints |-> 0]]
    /\ calls = 0

\* The four coroutines start() gathers.
Loops == {"scan", "position_check", "evolution", "heartbeat"}

\* MomentumBot.__init__, before start(): no loop has begun.
LoopsNotStarted ==
    /\ running = FALSE
    /\ loops = [l \in Loops |-> [at |-> "not_started", cycles |-> 0]]

\* No backtest is running.
NoBacktest == <<>>

\* No StrategyEvolver and no RegimeDetector are in use.
NoEvolver == <<>>

NoDetector == <<>>

\* The objects a specification does not exercise.
Unused(objects) ==
    /\ "bt" \in objects => bt = NoBacktest
    /\ "evolver" \in objects => evolver = NoEvolver
    /\ "detector" \in objects => detector = NoDetector

\* A manager constructed from a snapshot an earlier run saved, or from none.
Init ==
    /\ state_file \in InitialStateFiles
    /\ __init__
    /\ LoopsNotStarted
    /\ Unused({"bt", "evolver", "detector"})

\* ---------------------------------------------------------- call plumbing

\* Task t's call about mint ends with result r after logging msg.
Finish(t, r, msg, mint) ==
    /\ pc' = [pc EXCEPT ![t] = "idle"]
    /\ ret' = [ret EXCEPT ![t] = r]
    /\ log' = [log EXCEPT ![t] = Log(msg, mint)]

\* The frames after the dict's values were replaced by d's: a frame's
\* position variable refers to the object, so it sees the object's fields.
Refresh(frames, d) ==
    [u \in Tasks |->
        LET ref == frames[u].position
            same == {i \in 1..Len(d) : d[i].mint = ref.mint
                                       /\ d[i].entry_time = ref.entry_time}
        IN  IF ref.mint # NoMint /\ same # {}
            THEN [frames[u] EXCEPT !.position = d[CHOOSE i \in same : TRUE]]
            ELSE frames[u]]

\* A call may start: the bound on calls, and under the sequential
\* specification no other call in progress.
Begin(t) ==
    /\ pc[t] = "idle"
    /\ calls < MaxCalls
    /\ calls' = calls + 1


\* ---------------------------------------------------------- open_position

\* (mutant) the membership test is missing
already_open_unchecked(d, mint) == FALSE

\* `if mint in self.positions`
already_open(d, mint) == dict_contains(d, mint)

\* (mutant) `>` for `>=`
limit_reached_off_by_one(d) == Len(d) > MAX_SIMULTANEOUS_POSITIONS

\* `if len(self.positions) >= config.MAX_SIMULTANEOUS_POSITIONS`
limit_reached(d) == Len(d) >= MAX_SIMULTANEOUS_POSITIONS

\* (mutant) `< 0` for `<= 0`: a fill of nothing is taken for a fill
buy_filled_accepts_zero(token_amount) == token_amount >= 0

\* `token_amount is None or token_amount <= 0` is false
buy_filled(token_amount) == token_amount > 0

\* open_position up to its first suspension: the two guards, the sizing and
\* _execute_buy up to `await self.jupiter.get_quote`.
open_position(t) ==
    /\ Begin(t)
    /\ \E mint \in Mints, price_usd \in Prices, amount_usdc \in Amounts :
          IF already_open(positions, mint)
          THEN /\ Finish(t, ReturnNone, "already_have_position", mint)
               /\ UNCHANGED <<frame, quote_requests>>
          ELSE IF limit_reached(positions)
          THEN /\ Finish(t, ReturnNone, "max_positions", mint)
               /\ UNCHANGED <<frame, quote_requests>>
          ELSE /\ pc' = [pc EXCEPT ![t] = "buy_quote"]
               /\ frame' = [frame EXCEPT ![t] =
                      [IdleFrame EXCEPT
                          !.op = "open_position",
                          !.mint = mint,
                          !.symbol = SymbolOf[mint],
                          !.price_usd = price_usd,
                          !.amount_usdc = amount_usdc,
                          !.position_size = position_size_of(amount_usdc),
                          !.stop_loss_price = stop_loss_price_of(price_usd),
                          !.take_profit_price = take_profit_price_of(price_usd),
                          !.amount = position_size_of(amount_usdc) * UNITS]]
               /\ UNCHANGED <<ret, log>>
               /\ quote_requests' = quote_requests + 1
    /\ UNCHANGED outside_manager
    /\ UNCHANGED <<http, positions, trade_history, state_file, trades_file, clock,
                   executed>>

\* _execute_buy resumes with the quote: `if not quote: return None`, else
\* up to `await self.jupiter.get_swap_transaction`.
buy_quote_return(t) ==
    /\ pc[t] = "buy_quote"
    /\ \E quote \in QuoteResponses(BuyOutAmounts) :
          IF quote_falsy(quote)
          THEN /\ Finish(t, ReturnNone, "buy_failed", frame[t].mint)
               /\ frame' = [frame EXCEPT ![t] = IdleFrame]
          ELSE /\ pc' = [pc EXCEPT ![t] = "buy_swap"]
               /\ frame' = [frame EXCEPT ![t].quote = quote]
               /\ UNCHANGED <<ret, log>>
    /\ UNCHANGED outside_manager
    /\ UNCHANGED <<http, positions, trade_history, state_file, trades_file, clock,
                   quote_requests, executed, calls>>

\* The Position open_position creates from its arguments and the fill.
opened_position(fr, now) ==
    Position(fr.mint, fr.symbol, fr.price_usd, now, fr.position_size,
             quote_outAmount(fr.quote) \div UNITS, fr.stop_loss_price,
             fr.take_profit_price, fr.price_usd, 0)

\* _execute_buy resumes with the transaction and returns; open_position
\* runs to its end: the fill test, the new Position, self.positions[mint],
\* _log_trade, _save_state and the closing log line.
buy_swap_return(t) ==
    /\ pc[t] = "buy_swap"
    /\ \E tx_bytes \in SwapResponses :
          LET fr == frame[t]
              token_amount == quote_outAmount(fr.quote) \div UNITS
              position == opened_position(fr, clock)
              d == dict_setitem(positions, fr.mint, position)
              record == _log_trade("OPEN", position, "", clock + 1)
          IN  IF tx_bytes = "None"
              THEN /\ Finish(t, ReturnNone, "buy_failed", frame[t].mint)
                   /\ UNCHANGED <<positions, trade_history, state_file,
                                  trades_file, clock, executed>>
              ELSE /\ executed' = [executed EXCEPT !["buy"][fr.mint] = @ + 1]
                   /\ IF ~buy_filled(token_amount)
                      THEN /\ Finish(t, ReturnNone, "buy_failed", frame[t].mint)
                           /\ UNCHANGED <<positions, trade_history, state_file,
                                          trades_file, clock>>
                      ELSE /\ positions' = d
                           /\ trade_history' = Append(trade_history, record)
                           /\ trades_file' = Append(trades_file, record)
                           /\ state_file' = _save_state(d, clock + 2)
                           /\ clock' = clock + 3
                           /\ IF unrealized_pnl_percent_raises(position)
                              THEN Finish(t, Raise("ZeroDivisionError"), "",
                                          fr.mint)
                              ELSE Finish(t, Return("Position", position),
                                          "position_opened", fr.mint)
    /\ frame' = [frame EXCEPT ![t] = IdleFrame]
    /\ UNCHANGED outside_manager
    /\ UNCHANGED <<http, quote_requests, calls>>


\* ------------------------------------------- check_positions: the for loop

\* (mutant) take profit is tested before stop loss
trigger_take_profit_first(position) ==
    IF should_take_profit(position) THEN "take_profit"
    ELSE IF should_stop_loss(position) THEN "stop_loss"
    ELSE "none"

\* `if position.should_stop_loss(): ... elif position.should_take_profit():`
\* the reason the loop closes the position with, "none" when it does not.
trigger_of(position) ==
    IF should_stop_loss(position) THEN "stop_loss"
    ELSE IF should_take_profit(position) THEN "take_profit"
    ELSE "none"

RECURSIVE CheckScanLastKnown(_, _, _)
\* (mutant) a value without a price is not skipped: the thresholds are tested
\* on its last known price
CheckScanLastKnown(d, i, prices) ==
    IF i > Len(d)
    THEN [positions |-> d, stop |-> "end", at |-> i]
    ELSE LET position ==
                 IF d[i].mint \in DOMAIN prices
                 THEN [d[i] EXCEPT !.current_price_usd = prices[d[i].mint]]
                 ELSE d[i]
             d1 == [d EXCEPT ![i] = position]
         IN  IF trigger_of(position) # "none"
             THEN [positions |-> d1, stop |-> trigger_of(position), at |-> i]
             ELSE CheckScanLastKnown(d1, i + 1, prices)

\* The loop `for mint, position in self.positions.items()` from the i-th
\* value of d on, as far as it runs without suspending: a value without a
\* price is skipped, a value with one gets it as current_price_usd, and the
\* loop stops at the first value whose stop loss (tested first) or take
\* profit holds.  stop is "end" when the values are exhausted.
RECURSIVE CheckScan(_, _, _)
CheckScan(d, i, prices) ==
    IF i > Len(d)
    THEN [positions |-> d, stop |-> "end", at |-> i]
    ELSE IF d[i].mint \notin DOMAIN prices
    THEN CheckScan(d, i + 1, prices)
    ELSE LET position == [d[i] EXCEPT !.current_price_usd = prices[d[i].mint]]
             d1 == [d EXCEPT ![i] = position]
         IN  IF trigger_of(position) # "none"
             THEN [positions |-> d1, stop |-> trigger_of(position), at |-> i]
             ELSE CheckScan(d1, i + 1, prices)

\* The dict iterator's next(): it raises RuntimeError when the dict's size is
\* not the size it was created with.
iterator_raises(d, fr) == Len(d) # fr.it_used

\* The entry check_positions appends to actions after a close.
action_entry(reason, position) ==
    [action |-> reason, mint |-> position.mint, symbol |-> position.symbol,
     pnl_usd |-> position.realized_pnl_usd]

\* Task t's check_positions goes on with the loop after the value at
\* fr.it_pos, over the dict d: to the end of the loop (it returns actions),
\* to an exception, or into close_position up to its suspension in
\* _execute_sell's get_quote.  fr.attempted collects the mints the loop has
\* called close_position for.
LoopContinue(t, d, fr, actions) ==
    \E keys_changed_raises \in
          IF dict_keys(d) # fr.it_keys THEN BOOLEAN ELSE {FALSE} :
       LET scan == CheckScan(d, fr.it_pos + 1, fr.prices)
           d1 == scan.positions
       IN  IF iterator_raises(d, fr) \/ keys_changed_raises
           THEN /\ positions' = d
                /\ Finish(t, Raise("RuntimeError"), "", NoMint)
                /\ frame' = [Refresh(frame, d) EXCEPT ![t] = IdleFrame]
                /\ UNCHANGED quote_requests
           ELSE IF scan.stop = "end"
           THEN /\ positions' = d1
                /\ Finish(t, Return("list", actions), "", NoMint)
                /\ frame' = [Refresh(frame, d1) EXCEPT ![t] = IdleFrame]
                /\ UNCHANGED quote_requests
           ELSE IF unrealized_pnl_percent_raises(d1[scan.at])
           THEN /\ positions' = d1
                /\ Finish(t, Raise("ZeroDivisionError"), "", d1[scan.at].mint)
                /\ frame' = [Refresh(frame, d1) EXCEPT ![t] = IdleFrame]
                /\ UNCHANGED quote_requests
           ELSE /\ positions' = d1
                /\ pc' = [pc EXCEPT ![t] = "sell_quote"]
                /\ frame' = [Refresh(frame, d1) EXCEPT ![t] =
                       [fr EXCEPT !.actions = actions,
                                  !.it_pos = scan.at,
                                  !.mint = d1[scan.at].mint,
                                  !.reason = scan.stop,
                                  !.position = d1[scan.at],
                                  !.amount = d1[scan.at].token_amount * UNITS,
                                  !.quote = NoQuote,
                                  !.attempted = @ \cup {d1[scan.at].mint}]]
                /\ quote_requests' = quote_requests + 1
                /\ UNCHANGED <<ret, log>>

\* check_positions up to `await self.jupiter.get_token_prices(mints)`.
check_positions(t) ==
    /\ Begin(t)
    /\ IF positions = <<>>
       THEN /\ Finish(t, Return("list", <<>>), "", NoMint)
            /\ UNCHANGED frame
       ELSE /\ pc' = [pc EXCEPT ![t] = "check_prices"]
            /\ frame' = [frame EXCEPT ![t] =
                   [IdleFrame EXCEPT !.op = "check_positions",
                                     !.mints = dict_keys(positions)]]
            /\ UNCHANGED <<ret, log>>
    /\ UNCHANGED outside_manager
    /\ UNCHANGED <<http, positions, trade_history, state_file, trades_file, clock,
                   quote_requests, executed>>

\* The price feed answers the request of task t: a status and, for the mints
\* asked, the entries of the response's "data" object.
price_response(t) ==
    /\ pc[t] = "check_prices"
    /\ LET mints == {frame[t].mints[i] : i \in 1..Len(frame[t].mints)}
       IN  \E status \in HttpStatuses, data \in [mints -> PriceData] :
              /\ status # 200 => \A m \in mints : data[m].kind = "absent"
              /\ http' = [http EXCEPT ![t] = [status |-> status, data |-> data]]
    /\ pc' = [pc EXCEPT ![t] = "check_resume"]
    /\ UNCHANGED outside_manager
    /\ UNCHANGED <<positions, trade_history, state_file, trades_file, clock,
                   frame, ret, log, quote_requests, executed, calls>>

\* get_token_prices resumes with the response and returns the prices;
\* check_positions starts the loop over the dict as it is now.
check_prices_return(t) ==
    /\ pc[t] = "check_resume"
    /\ LET mints == {frame[t].mints[i] : i \in 1..Len(frame[t].mints)}
       IN  LoopContinue(t, positions,
               [frame[t] EXCEPT
                   !.prices = get_token_prices(mints, http[t].status,
                                               http[t].data),
                   !.it_pos = 0,
                   !.it_used = Len(positions),
                   !.it_keys = dict_keys(positions)],
               <<>>)
    /\ http' = [http EXCEPT ![t] = NoResponse]
    /\ UNCHANGED outside_manager
    /\ UNCHANGED <<trade_history, state_file, trades_file, clock,
                   executed, calls>>

\* --------------------------------------------------------- close_position

\* (mutant) the difference is taken the wrong way round
realized_pnl_reversed(usdc_received, position) ==
    position.position_size_usdc - usdc_received

\* usdc_received - position.position_size_usdc
realized_pnl_of(usdc_received, position) ==
    usdc_received - position.position_size_usdc

\* close_position up to its first suspension: the lookup, the log line and
\* _execute_sell up to `await self.jupiter.get_quote`.
close_position(t) ==
    /\ Begin(t)
    /\ \E mint \in Mints, reason \in Reasons :
          IF ~dict_contains(positions, mint)
          THEN /\ Finish(t, ReturnNone, "no_position", mint)
               /\ UNCHANGED <<frame, quote_requests>>
          ELSE IF unrealized_pnl_percent_raises(dict_getitem(positions, mint))
          THEN /\ Finish(t, Raise("ZeroDivisionError"), "", mint)
               /\ UNCHANGED <<frame, quote_requests>>
          ELSE /\ pc' = [pc EXCEPT ![t] = "sell_quote"]
               /\ frame' = [frame EXCEPT ![t] =
                      [IdleFrame EXCEPT
                          !.op = "close_position",
                          !.mint = mint,
                          !.reason = reason,
                          !.position = dict_getitem(positions, mint),
                          !.amount =
                              dict_getitem(positions, mint).token_amount * UNITS]]
               /\ UNCHANGED <<ret, log>>
               /\ quote_requests' = quote_requests + 1
    /\ UNCHANGED outside_manager
    /\ UNCHANGED <<http, positions, trade_history, state_file, trades_file, clock,
                   executed>>

\* (mutant) the position is dropped although nothing was sold
CloseFailedDropsPosition(t) ==
    /\ UNCHANGED <<trade_history, state_file, trades_file, clock>>
    /\ IF frame[t].op = "check_positions"
       THEN LoopContinue(t, positions, frame[t], frame[t].actions)
       ELSE /\ Finish(t, ReturnNone, "sell_failed", frame[t].mint)
            /\ frame' = [frame EXCEPT ![t] = IdleFrame]
            /\ positions' = dict_delitem(positions, frame[t].mint)
            /\ UNCHANGED quote_requests

\* (mutant) the sell that failed is logged as a CLOSE all the same
CloseFailedLogged(t) ==
    /\ trade_history' =
           Append(trade_history,
                  _log_trade("CLOSE", frame[t].position, frame[t].reason, clock))
    /\ UNCHANGED <<state_file, trades_file, clock>>
    /\ IF frame[t].op = "check_positions"
       THEN LoopContinue(t, positions, frame[t], frame[t].actions)
       ELSE /\ Finish(t, ReturnNone, "sell_failed", frame[t].mint)
            /\ frame' = [frame EXCEPT ![t] = IdleFrame]
            /\ UNCHANGED <<positions, quote_requests>>

\* close_position got None from _execute_sell and returns None: to its
\* caller, or into the loop of check_positions, which appends no action.
CloseFailed(t) ==
    /\ UNCHANGED <<trade_history, state_file, trades_file, clock>>
    /\ IF frame[t].op = "check_positions"
       THEN LoopContinue(t, positions, frame[t], frame[t].actions)
       ELSE /\ Finish(t, ReturnNone, "sell_failed", frame[t].mint)
            /\ frame' = [frame EXCEPT ![t] = IdleFrame]
            /\ UNCHANGED <<positions, quote_requests>>

\* close_position got usdc_received from _execute_sell and runs to its end:
\* realized P&L, _log_trade, del self.positions[mint] (KeyError when the mint
\* is gone), _save_state; then back to its caller or into the loop of
\* check_positions, which appends the action and asks the iterator for the
\* next value.
CloseSucceeded(t, usdc_received) ==
    LET fr == frame[t]
        position ==
            [fr.position EXCEPT
                !.realized_pnl_usd = realized_pnl_of(usdc_received, fr.position)]
        record == _log_trade("CLOSE", position, fr.reason, clock)
        d == dict_delitem(positions, fr.mint)
        \* the other frames that refer to the closed object see its P&L
        seen == [u \in Tasks |->
                    IF /\ frame[u].position.mint = position.mint
                       /\ frame[u].position.entry_time = position.entry_time
                    THEN [frame[u] EXCEPT !.position = position]
                    ELSE frame[u]]
    IN  /\ trade_history' = Append(trade_history, record)
        /\ trades_file' = Append(trades_file, record)
        /\ IF ~dict_contains(positions, fr.mint)
           THEN /\ Finish(t, Raise("KeyError"), "", fr.mint)
                /\ frame' = [seen EXCEPT ![t] = IdleFrame]
                /\ clock' = clock + 1
                /\ UNCHANGED <<positions, state_file, quote_requests>>
           ELSE /\ state_file' = _save_state(d, clock + 1)
                /\ clock' = clock + 2
                /\ IF fr.op = "check_positions"
                   THEN LoopContinue(t, d, fr,
                            Append(fr.actions, action_entry(fr.reason, position)))
                   ELSE /\ positions' = d
                        /\ Finish(t, Return("float", usdc_received),
                                  "position_closed", fr.mint)
                        /\ frame' = [seen EXCEPT ![t] = IdleFrame]
                        /\ UNCHANGED quote_requests

\* _execute_sell resumes with the quote: `if not quote: return None`, else
\* up to `await self.jupiter.get_swap_transaction`.
sell_quote_return(t) ==
    /\ pc[t] = "sell_quote"
    /\ \E quote \in QuoteResponses(SellOutAmounts) :
          IF quote_falsy(quote)
          THEN /\ CloseFailed(t)
          ELSE /\ pc' = [pc EXCEPT ![t] = "sell_swap"]
               /\ frame' = [frame EXCEPT ![t].quote = quote]
               /\ UNCHANGED <<positions, trade_history, state_file, trades_file,
                              clock, ret, log, quote_requests>>
    /\ UNCHANGED outside_manager
    /\ UNCHANGED <<http, executed, calls>>

\* _execute_sell resumes with the transaction and returns usdc_received
\* (None without a transaction); close_position runs to its end.
sell_swap_return(t) ==
    /\ pc[t] = "sell_swap"
    /\ \E tx_bytes \in SwapResponses :
          IF tx_bytes = "None"
          THEN /\ CloseFailed(t)
               /\ UNCHANGED executed
          ELSE /\ executed' = [executed EXCEPT !["sell"][frame[t].mint] = @ + 1]
               /\ CloseSucceeded(t, quote_outAmount(frame[t].quote) \div UNITS)
    /\ UNCHANGED outside_manager
    /\ UNCHANGED <<http, calls>>

\* ------------------------------------------------------ crash and restart

\* The process dies inside _save_state, called by open_position or
\* close_position after a buy or a sell that succeeded: the file was opened
\* with "w" (and so emptied); what json.dump had written and flushed when the
\* process died is a part of the new snapshot or all of it.  The variables of
\* the dead process keep their last values until the restart.
crash_in_save(t) ==
    /\ pc[t] \in {"buy_swap", "sell_swap"}
    /\ LET fr == frame[t]
           opening == pc[t] = "buy_swap"
           usdc_received == quote_outAmount(fr.quote) \div UNITS
           position ==
               IF opening
               THEN opened_position(fr, clock)
               ELSE [fr.position EXCEPT
                        !.realized_pnl_usd =
                            realized_pnl_of(usdc_received, fr.position)]
           record ==
               IF opening
               THEN _log_trade("OPEN", position, "", clock + 1)
               ELSE _log_trade("CLOSE", position, fr.reason, clock + 1)
           d == IF opening
                THEN dict_setitem(positions, fr.mint, position)
                ELSE dict_delitem(positions, fr.mint)
       IN  /\ IF opening
              THEN buy_filled(position.token_amount)
              ELSE dict_contains(positions, fr.mint)
           /\ positions' = d
           /\ trade_history' = Append(trade_history, record)
           /\ trades_file' = Append(trades_file, record)
           /\ state_file' \in {PartialFile, _save_state(d, clock + 2)}
           /\ executed' =
                  [executed EXCEPT
                      ![IF opening THEN "buy" ELSE "sell"][fr.mint] = @ + 1]
    /\ clock' = clock + 3
    /\ pc' = [u \in Tasks |-> "crashed"]
    /\ UNCHANGED outside_manager
    /\ UNCHANGED <<frame, ret, log, http, quote_requests, calls>>

\* The process dies in open_position or close_position after _log_trade has
\* appended its line to the trade log and before _save_state has opened the
\* snapshot: the file is the snapshot of the last operation that saved.
crash_after_log(t) ==
    /\ pc[t] \in {"buy_swap", "sell_swap"}
    /\ LET fr == frame[t]
           opening == pc[t] = "buy_swap"
           usdc_received == quote_outAmount(fr.quote) \div UNITS
           position ==
               IF opening
               THEN opened_position(fr, clock)
               ELSE [fr.position EXCEPT
                        !.realized_pnl_usd =
                            realized_pnl_of(usdc_received, fr.position)]
           record ==
               IF opening
               THEN _log_trade("OPEN", position, "", clock + 1)
               ELSE _log_trade("CLOSE", position, fr.reason, clock + 1)
       IN  /\ IF opening
              THEN buy_filled(position.token_amount)
              ELSE dict_contains(positions, fr.mint)
           /\ positions' = IF opening
                           THEN dict_setitem(positions, fr.mint, position)
                           ELSE positions
           /\ trade_history' = Append(trade_history, record)
           /\ trades_file' = Append(trades_file, record)
           /\ executed' =
                  [executed EXCEPT
                      ![IF opening THEN "buy" ELSE "sell"][fr.mint] = @ + 1]
    /\ clock' = clock + 2
    /\ pc' = [u \in Tasks |-> "crashed"]
    /\ UNCHANGED outside_manager
    /\ UNCHANGED <<state_file, frame, ret, log, http, quote_requests, calls>>

\* The bot is started again: a new manager is constructed from the file.
restart ==
    /\ \A u \in Tasks : pc[u] = "crashed"
    /\ positions' = _load_state(state_file)
    /\ trade_history' = <<>>
    /\ clock' = clock + 1
    /\ pc' = [u \in Tasks |-> "idle"]
    /\ frame' = [u \in Tasks |-> IdleFrame]
    /\ ret' = [u \in Tasks |-> NoReturn]
    /\ log' = [u \in Tasks |-> NoLog]
    /\ http' = [u \in Tasks |-> NoResponse]
    /\ UNCHANGED outside_manager
    /\ UNCHANGED <<state_file, trades_file, quote_requests, executed, calls>>

\* ------------------------------------------------- the loops of MomentumBot
\* Every loop is `while self.running: try: <body>; await asyncio.sleep(interval)
\* except Exception as e: logger.error(...); await asyncio.sleep(5 or 60)`.

\* An exception the body of each loop raises: RuntimeError out of
\* check_positions, AttributeError for config.TOKEN_UNIVERSE and for
\* config.MAX_CONCURRENT_POSITIONS (read by get_status), which Config lacks.
BodyException ==
    [l \in Loops |->
        IF l = "position_check" THEN "RuntimeError" ELSE "AttributeError"]

\* (mutant) the except clause catches nothing
catches_nothing(e) == FALSE

\* `except Exception`: the classes derived from Exception.
catches(e) ==
    e \in {"RuntimeError", "ZeroDivisionError", "AttributeError", "TypeError",
           "KeyError", "ValueError"}

\* A loop whose coroutine has returned or was left by an exception: nothing
\* of it remains.
Ended == [at |-> "ended", cycles |-> 0]

\* start(): self.running = True, then the loops are gathered.
start ==
    /\ ~running
    /\ \A l \in Loops : loops[l].at = "not_started"
    /\ running' = TRUE
    /\ loops' = [l \in Loops |-> [at |-> "while", cycles |-> 0]]
    /\ UNCHANGED <<manager_vars, bt, evolver, detector>>

\* stop(): self.running = False.
stop ==
    /\ running
    /\ running' = FALSE
    /\ UNCHANGED <<manager_vars, loops, bt, evolver, detector>>

\* `while self.running:` the loop ends or a cycle starts.
loop_while(l) ==
    /\ loops[l].at = "while"
    /\ IF running
       THEN /\ loops[l].cycles < MaxCycles
            /\ loops' = [loops EXCEPT ![l].at = "try", ![l].cycles = @ + 1]
       ELSE loops' = [loops EXCEPT ![l] = Ended]
    /\ UNCHANGED <<manager_vars, running, bt, evolver, detector>>

\* The body of the try: it returns and the loop sleeps its interval, or it
\* raises.
loop_try(l) ==
    /\ loops[l].at = "try"
    /\ \E outcome \in {"sleep", "raised"} :
          loops' = [loops EXCEPT ![l].at = outcome]
    /\ UNCHANGED <<manager_vars, running, bt, evolver, detector>>

\* The exception reaches the except clause, which catches it, logs and
\* sleeps; an exception it does not catch leaves the coroutine.
loop_except(l) ==
    /\ loops[l].at = "raised"
    /\ loops' = [loops EXCEPT
                    ![l] = IF catches(BodyException[l])
                           THEN [@ EXCEPT !.at = "sleep"] ELSE Ended]
    /\ UNCHANGED <<manager_vars, running, bt, evolver, detector>>

\* asyncio.sleep returns, the one of the try (the interval) or the one of
\* the except clause (5 or 60 seconds): back to the loop's test.
loop_sleep(l) ==
    /\ loops[l].at = "sleep"
    /\ loops' = [loops EXCEPT ![l].at = "while"]
    /\ UNCHANGED <<manager_vars, running, bt, evolver, detector>>

LoopStep(l) ==
    \/ loop_while(l)
    \/ loop_try(l)
    \/ loop_except(l)
    \/ loop_sleep(l)

\* -------------------------------------------------------- BacktestEngine
\* Prices are whole numbers on which close * 1.005, entry * 0.85 and
\* entry * 1.30 are whole; money (fees, pnl, equity) is in millionths of a
\* dollar; a ratio the code compares (RSI, win rate) is a fraction num / den.

\* BacktestEngine(initial_capital = 1000.0)
INITIAL_CAPITAL == 1000

\* FEES['slippage'] = 0.005 and FEES['swap'] = 0.003, in thousandths
SLIPPAGE_PER_MILLE == 5

SWAP_FEE_PER_MILLE == 3

\* FEES['network'] = 0.000005, in millionths
NETWORK_FEE_MICRO == 5

MICRO == 1000000

\* 'sl': entry * 0.85 and 'tp': entry * 1.30, in hundredths
SL_PERCENT == 85

TP_PERCENT == 130

\* history[-20:] and / 20
VOL_WINDOW == 20

\* The defaults of strategy.get in _check_signal (vol_mult in hundredths).
DEFAULT_RSI_PERIOD == 14

DEFAULT_RSI_LOW == 57

DEFAULT_RSI_HIGH == 63

DEFAULT_VOL_MULT == 138

\* strategy.get(key, default)
get(strategy, key, default) ==
    IF key \in DOMAIN strategy THEN strategy[key] ELSE default

\* Candles as the exit test and the signal read them; time is set to the
\* candle's place in the sequence.
CandleShapes ==
    {[close |-> 16000, low |-> 15900, high |-> 16100, volume |-> 1000, time |-> 0],
     [close |-> 16000, low |-> 13000, high |-> 16100, volume |-> 1000, time |-> 0],
     [close |-> 16000, low |-> 13000, high |-> 21000, volume |-> 1000, time |-> 0],
     [close |-> 20000, low |-> 15900, high |-> 20100, volume |-> 1000, time |-> 0],
     [close |-> 20000, low |-> 15900, high |-> 21000, volume |-> 1000, time |-> 0],
     [close |-> 0, low |-> 0, high |-> 0, volume |-> 1000, time |-> 0]}

CandleSeqs ==
    UNION {{[i \in 1..n |-> [shape[i] EXCEPT !.time = i]] :
               shape \in [1..n -> CandleShapes]} : n \in 0..MaxCandles}

\* Strategy dicts: one that buys at the neutral RSI 50, the one of
\* run_backtest_suite, one with a short RSI period.
Strategies ==
    {[rsi_low |-> 40, rsi_high |-> 60, vol_mult |-> 50],
     [rsi_period |-> 14, rsi_low |-> 57, rsi_high |-> 63, vol_mult |-> 138],
     [rsi_period |-> 2, rsi_low |-> 40, rsi_high |-> 60, vol_mult |-> 50]}

RECURSIVE Sum(_)
Sum(seq) == IF seq = <<>> THEN 0 ELSE seq[1] + Sum(Tail(seq))

\* seq[-n:] for n > 0
Last(seq, n) ==
    IF Len(seq) <= n THEN seq ELSE SubSeq(seq, Len(seq) - n + 1, Len(seq))

\* (mutant) the oscillator without the test of the length
_calculate_rsi_unguarded(candles, period) ==
    LET change(i) == candles[i + 1].close - candles[i].close
        gains == [i \in 1..(Len(candles) - 1) |->
                     IF change(i) > 0 THEN change(i) ELSE 0]
        losses == [i \in 1..(Len(candles) - 1) |->
                      IF change(i) > 0 THEN 0 ELSE -change(i)]
        gain == Sum(Last(gains, period))
        loss == Sum(Last(losses, period))
    IN  IF loss = 0
        THEN [num |-> 100, den |-> 1]
        ELSE [num |-> 100 * gain, den |-> gain + loss]

\* (mutant) the oscillator without the case of no loss
_calculate_rsi_no_loss_case(candles, period) ==
    IF Len(candles) < period + 1
    THEN [num |-> 50, den |-> 1]
    ELSE LET change(i) == candles[i + 1].close - candles[i].close
             gains == [i \in 1..(Len(candles) - 1) |->
                          IF change(i) > 0 THEN change(i) ELSE 0]
             losses == [i \in 1..(Len(candles) - 1) |->
                           IF change(i) > 0 THEN 0 ELSE -change(i)]
             gain == Sum(Last(gains, period))
             loss == Sum(Last(losses, period))
         IN  [num |-> 100 * gain, den |-> gain + loss]

\* _calculate_rsi: 50 for fewer than period + 1 candles, 100 without a loss
\* in the last period changes, else 100 - 100 / (1 + avg_gain / avg_loss),
\* which is 100 * gains / (gains + losses).
_calculate_rsi(candles, period) ==
    IF Len(candles) < period + 1
    THEN [num |-> 50, den |-> 1]
    ELSE LET change(i) == candles[i + 1].close - candles[i].close
             gains == [i \in 1..(Len(candles) - 1) |->
                          IF change(i) > 0 THEN change(i) ELSE 0]
             losses == [i \in 1..(Len(candles) - 1) |->
                           IF change(i) > 0 THEN 0 ELSE -change(i)]
             gain == Sum(Last(gains, period))
             loss == Sum(Last(losses, period))
         IN  IF loss = 0
             THEN [num |-> 100, den |-> 1]
             ELSE [num |-> 100 * gain, den |-> gain + loss]

\* (mutant) a volume equal to avg_vol * vol_mult is enough
_check_signal_at_least(candle, strategy, history) ==
    IF history = <<>>
    THEN "HOLD"
    ELSE LET rsi == _calculate_rsi(Append(history, candle),
                                   get(strategy, "rsi_period", DEFAULT_RSI_PERIOD))
             rsi_low == get(strategy, "rsi_low", DEFAULT_RSI_LOW)
             rsi_high == get(strategy, "rsi_high", DEFAULT_RSI_HIGH)
             vol_mult == get(strategy, "vol_mult", DEFAULT_VOL_MULT)
             volumes == [i \in 1..Len(history) |-> history[i].volume]
             avg_vol ==
                 IF Len(history) >= VOL_WINDOW
                 THEN [num |-> Sum(Last(volumes, VOL_WINDOW)), den |-> VOL_WINDOW]
                 ELSE [num |-> candle.volume, den |-> 1]
         IN  IF /\ rsi_low * rsi.den <= rsi.num
                /\ rsi.num <= rsi_high * rsi.den
                /\ candle.volume * avg_vol.den * 100 >= avg_vol.num * vol_mult
             THEN "BUY"
             ELSE "HOLD"

\* (mutant) the trailing average is taken from 19 candles of history on
_check_signal_short_window(candle, strategy, history) ==
    IF history = <<>>
    THEN "HOLD"
    ELSE LET rsi == _calculate_rsi(Append(history, candle),
                                   get(strategy, "rsi_period", DEFAULT_RSI_PERIOD))
             rsi_low == get(strategy, "rsi_low", DEFAULT_RSI_LOW)
             rsi_high == get(strategy, "rsi_high", DEFAULT_RSI_HIGH)
             vol_mult == get(strategy, "vol_mult", DEFAULT_VOL_MULT)
             volumes == [i \in 1..Len(history) |-> history[i].volume]
             avg_vol ==
                 IF Len(history) >= VOL_WINDOW - 1
                 THEN [num |-> Sum(Last(volumes, VOL_WINDOW)), den |-> VOL_WINDOW]
                 ELSE [num |-> candle.volume, den |-> 1]
         IN  IF /\ rsi_low * rsi.den <= rsi.num
                /\ rsi.num <= rsi_high * rsi.den
                /\ candle.volume * avg_vol.den * 100 > avg_vol.num * vol_mult
             THEN "BUY"
             ELSE "HOLD"

\* _check_signal: HOLD without history; BUY when the RSI is within
\* [rsi_low, rsi_high] and the volume exceeds avg_vol * vol_mult, where
\* avg_vol is the mean of the last 20 volumes, or the candle's own volume
\* while the history is shorter.
_check_signal(candle, strategy, history) ==
    IF history = <<>>
    THEN "HOLD"
    ELSE LET rsi == _calculate_rsi(Append(history, candle),
                                   get(strategy, "rsi_period", DEFAULT_RSI_PERIOD))
             rsi_low == get(strategy, "rsi_low", DEFAULT_RSI_LOW)
             rsi_high == get(strategy, "rsi_high", DEFAULT_RSI_HIGH)
             vol_mult == get(strategy, "vol_mult", DEFAULT_VOL_MULT)
             volumes == [i \in 1..Len(history) |-> history[i].volume]
             avg_vol ==
                 IF Len(history) >= VOL_WINDOW
                 THEN [num |-> Sum(Last(volumes, VOL_WINDOW)), den |-> VOL_WINDOW]
                 ELSE [num |-> candle.volume, den |-> 1]
         IN  IF /\ rsi_low * rsi.den <= rsi.num
                /\ rsi.num <= rsi_high * rsi.den
                /\ candle.volume * avg_vol.den * 100 > avg_vol.num * vol_mult
             THEN "BUY"
             ELSE "HOLD"

\* position = None
NoBacktestPosition ==
    [type |-> "None", entry |-> 0, qty |-> [num |-> 0, den |-> 1], fees |-> 0,
     sl |-> 0, tp |-> 0]

\* (mutant) the exit levels are taken from the strategy
exit_levels_of_strategy(entry, strategy) ==
    [sl |-> (entry * (100 - 5 * get(strategy, "stop_atr_mult", 3))) \div 100,
     tp |-> (entry * (100 + get(strategy, "tp_percent", 30))) \div 100]

\* 'sl': entry * 0.85, 'tp': entry * 1.30
exit_levels(entry, strategy) ==
    [sl |-> (entry * SL_PERCENT) \div 100, tp |-> (entry * TP_PERCENT) \div 100]

\* entry = candle['close'] * (1 + FEES['slippage'])
entry_price(candle) == (candle.close * (1000 + SLIPPAGE_PER_MILLE)) \div 1000

\* The position dict of an entry: qty = (capital * 0.1) / entry, kept as
\* the fraction; fees = qty * entry * FEES['swap'] + FEES['network'].
entered(candle, strategy) ==
    LET entry == entry_price(candle)
        notional == INITIAL_CAPITAL \div 10
    IN  [type |-> "long",
         entry |-> entry,
         qty |-> [num |-> notional, den |-> entry],
         fees |-> (notional * SWAP_FEE_PER_MILLE * MICRO) \div 1000
                     + NETWORK_FEE_MICRO,
         sl |-> exit_levels(entry, strategy).sl,
         tp |-> exit_levels(entry, strategy).tp]

\* (mutant) a BUY signal enters whether or not a position is open
enters_anyway(signal, position) == signal = "BUY"

\* `if signal == 'BUY' and not position`
enters(signal, position) == signal = "BUY" /\ position.type = "None"

\* (mutant) the take profit is tested before the stop loss
exit_type_tp_first(candle, position) ==
    IF candle.high >= position.tp THEN "TP"
    ELSE IF candle.low <= position.sl THEN "SL"
    ELSE "none"

\* `if candle['low'] <= position['sl']: ... elif candle['high'] >=
\* position['tp']`
exit_type(candle, position) ==
    IF candle.low <= position.sl THEN "SL"
    ELSE IF candle.high >= position.tp THEN "TP"
    ELSE "none"

\* The trade an exit appends: pnl = (exit - entry) * qty - fees.
exit_trade(type, candle, position) ==
    LET exit == IF type = "SL" THEN position.sl ELSE position.tp
    IN  [entry |-> position.entry,
         exit |-> exit,
         pnl |-> (((exit - position.entry) * position.qty.num)
                     \div position.qty.den) * MICRO - position.fees,
         type |-> type,
         timestamp |-> candle.time]

\* The locals of run before the first candle; entries counts the entries.
RunStart ==
    [i |-> 0, position |-> NoBacktestPosition, trades |-> <<>>,
     equity |-> INITIAL_CAPITAL * MICRO, entries |-> 0, raised |-> "none"]

\* One pass of the loop of run, over the candle after the i-th.
run_step(st, candles, strategy) ==
    LET candle == candles[st.i + 1]
        signal == _check_signal(candle, strategy, SubSeq(candles, 1, st.i))
        type == exit_type(candle, st.position)
        trade == exit_trade(type, candle, st.position)
    IN  IF enters(signal, st.position)
        THEN IF entry_price(candle) = 0
             THEN [st EXCEPT !.i = @ + 1, !.raised = "ZeroDivisionError"]
             ELSE [st EXCEPT !.i = @ + 1,
                             !.position = entered(candle, strategy),
                             !.entries = @ + 1]
        ELSE IF st.position.type # "None" /\ type # "none"
        THEN [st EXCEPT !.i = @ + 1,
                        !.position = NoBacktestPosition,
                        !.trades = Append(@, trade),
                        !.equity = @ + trade.pnl]
        ELSE [st EXCEPT !.i = @ + 1]

\* (mutant) the fees of a position still open are booked at the end
run_result_booking_open(st) ==
    LET wins == Cardinality({k \in 1..Len(st.trades) : st.trades[k].pnl > 0})
        equity == st.equity - st.position.fees
    IN  [total_trades |-> Len(st.trades),
         winning_trades |-> wins,
         win_rate |-> IF st.trades # <<>>
                      THEN [num |-> wins, den |-> Len(st.trades)]
                      ELSE [num |-> 0, den |-> 1],
         total_pnl |-> equity - INITIAL_CAPITAL * MICRO,
         final_equity |-> equity,
         trades |-> st.trades]

\* The dict run returns.
run_result(st) ==
    LET wins == Cardinality({k \in 1..Len(st.trades) : st.trades[k].pnl > 0})
    IN  [total_trades |-> Len(st.trades),
         winning_trades |-> wins,
         win_rate |-> IF st.trades # <<>>
                      THEN [num |-> wins, den |-> Len(st.trades)]
                      ELSE [num |-> 0, den |-> 1],
         total_pnl |-> st.equity - INITIAL_CAPITAL * MICRO,
         final_equity |-> st.equity,
         trades |-> st.trades]

NoResult == [total_trades |-> -1]

\* run(candles, strategy) from the locals st to its end: the exception
\* that leaves it, or what it returns.
RECURSIVE run_from(_, _, _)
run_from(st, candles, strategy) ==
    IF st.raised # "none"
    THEN [status |-> "raised", exception |-> st.raised, result |-> NoResult]
    ELSE IF st.i = Len(candles)
    THEN [status |-> "returned", exception |-> "none", result |-> run_result(st)]
    ELSE run_from(run_step(st, candles, strategy), candles, strategy)

\* The locals of run after the first n candles.
RECURSIVE run_from_to(_, _, _, _)
run_from_to(st, candles, strategy, n) ==
    IF st.raised # "none" \/ st.i >= n
    THEN st
    ELSE run_from_to(run_step(st, candles, strategy), candles, strategy, n)

\* BacktestEngine(): self.capital (the default of initial_capital),
\* self.trades, self.equity_curve.
NewEngine == [capital |-> INITIAL_CAPITAL, trades |-> <<>>, equity_curve |-> <<>>]

\* (mutant) run books its final equity as the engine's capital
engine_after_compounding(engine, st) ==
    [engine EXCEPT !.capital = st.equity \div MICRO]

\* The engine after run: run assigns to locals only.
engine_after(engine, st) == engine

\* Long candle sequences: flat closes, and a volume of three times the
\* others at the candle of index at (indices from 0, as enumerate counts).
SurgeCandles(at) ==
    [i \in 1..MaxLongCandles |->
        [close |-> 20000, low |-> 20000, high |-> 20000,
         volume |-> IF i = at + 1 THEN 3000 ELSE 1000, time |-> i]]

\* Where the surge is: early, at the last candle without a full volume
\* window behind it, at the first one with it, and after it.
SurgeAt == {1, 19, 20, 21}

\* Strategies with vol_mult >= 1: any oscillator value and vol_mult 1.0,
\* and the one of run_backtest_suite.
SurgeStrategies ==
    {[rsi_low |-> 0, rsi_high |-> 100, vol_mult |-> 100],
     [rsi_period |-> 14, rsi_low |-> 57, rsi_high |-> 63, vol_mult |-> 138]}

\* The calls of run to check: every candle sequence under every strategy,
\* on a new engine; runs counts the calls, first keeps what the first call
\* returned.
BacktestRuns ==
    {[candles |-> candles, strategy |-> strategy, st |-> RunStart,
      status |-> "running", result |-> NoResult, engine |-> NewEngine,
      runs |-> 1, first |-> NoResult] :
        candles \in CandleSeqs, strategy \in Strategies}
    \cup
    {[candles |-> SurgeCandles(at), strategy |-> strategy, st |-> RunStart,
      status |-> "running", result |-> NoResult, engine |-> NewEngine,
      runs |-> 1, first |-> NoResult] :
        at \in SurgeAt, strategy \in SurgeStrategies}

\* run processes its next candle.
run_candle ==
    /\ bt # NoBacktest
    /\ bt.status = "running"
    /\ bt.st.i < Len(bt.candles)
    /\ LET st == run_step(bt.st, bt.candles, bt.strategy)
       IN  bt' = [bt EXCEPT !.st = st,
                            !.status = IF st.raised # "none"
                                       THEN "raised" ELSE "running"]
    /\ UNCHANGED <<manager_vars, loop_vars, evolver, detector>>

\* run is through the candles and returns.
run_return ==
    /\ bt # NoBacktest
    /\ bt.status = "running"
    /\ bt.st.i = Len(bt.candles)
    /\ bt' = [bt EXCEPT !.status = "returned", !.result = run_result(bt.st),
                        !.engine = engine_after(bt.engine, bt.st)]
    /\ UNCHANGED <<manager_vars, loop_vars, evolver, detector>>

\* run is called again on the engine, with the same candles and strategy.
run_again ==
    /\ bt # NoBacktest
    /\ bt.status = "returned"
    /\ bt.runs < MaxRuns
    /\ bt' = [bt EXCEPT !.st = RunStart, !.status = "running",
                        !.result = NoResult, !.runs = @ + 1,
                        !.first = IF bt.runs = 1 THEN bt.result ELSE @]
    /\ UNCHANGED <<manager_vars, loop_vars, evolver, detector>>

\* ------------------------------------------------------- signal evaluator
\* Calls of _calculate_rsi and _check_signal on their own.

\* Candles as the oscillator and the signal read them.
SignalCandles ==
    {[close |-> c, volume |-> v] : c \in {90, 100, 110}, v \in {0, 1000, 2000}}

\* The sequences over S of length at most n.
SeqsUpTo(S, n) == UNION {[1..k -> S] : k \in 0..n}

\* Histories that reach the 20-candle window: a candle a up to a place, a
\* candle b from there on, or a and b in turns.
LongHistories ==
    {[i \in 1..n |-> IF i <= k THEN a ELSE b] :
        n \in (VOL_WINDOW - 1)..(VOL_WINDOW + 1), k \in {5, 15},
        a \in SignalCandles, b \in SignalCandles}
    \cup
    {[i \in 1..n |-> IF i % 2 = 1 THEN a ELSE b] :
        n \in (VOL_WINDOW - 1)..(VOL_WINDOW + 1),
        a \in SignalCandles, b \in SignalCandles}

\* The periods asked for: short ones and the default.
Periods == {1, 2, DEFAULT_RSI_PERIOD}

RsiCalls ==
    {[op |-> "_calculate_rsi", candles |-> candles, period |-> period,
      status |-> "called", value |-> [num |-> 0, den |-> 0]] :
        candles \in SeqsUpTo(SignalCandles, MaxHistory) \cup LongHistories,
        period \in Periods}

SignalCalls ==
    {[op |-> "_check_signal", candle |-> candle, strategy |-> strategy,
      history |-> history, status |-> "called", value |-> ""] :
        candle \in SignalCandles, strategy \in Strategies,
        history \in SeqsUpTo(SignalCandles, MaxHistory - 1) \cup LongHistories}

\* _calculate_rsi returns.
rsi_return ==
    /\ bt # NoBacktest
    /\ bt.op = "_calculate_rsi"
    /\ bt.status = "called"
    /\ bt' = [bt EXCEPT !.status = "returned",
                        !.value = _calculate_rsi(bt.candles, bt.period)]
    /\ UNCHANGED <<manager_vars, loop_vars, evolver, detector>>

\* _check_signal returns.
signal_return ==
    /\ bt # NoBacktest
    /\ bt.op = "_check_signal"
    /\ bt.status = "called"
    /\ bt' = [bt EXCEPT !.status = "returned",
                        !.value = _check_signal(bt.candle, bt.strategy, bt.history)]
    /\ UNCHANGED <<manager_vars, loop_vars, evolver, detector>>

\* ------------------------------------------------------- StrategyEvolver
\* Win rates are in hundredths (0.65 is 65), as are vol_mult, stop_atr_mult
\* and tp_percent.

\* self.base_strategy of __init__
InitialBaseStrategy ==
    [rsi_period |-> 14, rsi_low |-> 57, rsi_high |-> 63, vol_mult |-> 138,
     vol_lookback |-> 20, stop_atr_mult |-> 185, tp_percent |-> 28]

\* What the random draws of one variant can be: the ends of their ranges.
Draws ==
    {[rsi_period |-> p, rsi_low |-> 52, rsi_high |-> 68, vol_mult |-> 120,
      stop_atr_mult |-> 150, tp_percent |-> 40] : p \in {12, 18}}

\* mutant = self.base_strategy.copy() with the drawn values
mutated(base_strategy, draw) ==
    [k \in DOMAIN base_strategy |->
        IF k \in DOMAIN draw THEN draw[k] ELSE base_strategy[k]]

\* f"v{self.generation}_{i}" and f"best_{self.generation}"
variant_id(generation, i) == [prefix |-> "v", generation |-> generation, i |-> i]

best_id(generation) == [prefix |-> "best", generation |-> generation, i |-> 0]

\* StrategyVariant(id, params, win_rate = 0.0, trades = 0, ...)
StrategyVariant(id, params, win_rate, trades, created) ==
    [id |-> id, params |-> params, win_rate |-> win_rate, trades |-> trades,
     sharpe |-> 0, pnl |-> 0, created |-> created, last_tested |-> ""]

\* The results handed to select_best: dicts with params, win_rate, trades.
ResultParams == {mutated(InitialBaseStrategy, d) : d \in Draws}

WinRates == {0, 50, 65}

Results ==
    {[params |-> pr, win_rate |-> w, trades |-> 100, sharpe |-> 0] :
        pr \in ResultParams, w \in WinRates}

\* StrategyEvolver(): issued holds the ids generate_variants has given out,
\* last how the last call ended.
NoCall == [op |-> "none"]

NewEvolver ==
    [base_strategy |-> InitialBaseStrategy, variants |-> <<>>, generation |-> 0,
     best_win_rate |-> 0, tree |-> <<>>, issued |-> {}, calls |-> 0,
     last |-> NoCall]

\* (mutant) the generation counter stays
same_generation(generation) == generation

\* self.generation += 1
next_generation(generation) == generation + 1

\* generate_variants(n) with the given draws: the evolver after it and the
\* list it returns.
generate_variants(ev, n, draws) ==
    LET variants == [i \in 1..n |->
                        StrategyVariant(variant_id(ev.generation, i - 1),
                                        mutated(ev.base_strategy, draws[i]),
                                        0, 0, "utcnow")]
    IN  [evolver |-> [ev EXCEPT !.generation = next_generation(@)],
         ret |-> variants]

\* (mutant) max gives the last of the results with the largest win rate
max_index_last(results) ==
    CHOOSE i \in 1..Len(results) :
        /\ \A j \in 1..Len(results) : results[j].win_rate <= results[i].win_rate
        /\ \A j \in (i + 1)..Len(results) : results[j].win_rate < results[i].win_rate

\* max(results, key = lambda x: x['win_rate']): the place of the first of
\* the results with the largest win rate
max_index(results) ==
    CHOOSE i \in 1..Len(results) :
        /\ \A j \in 1..Len(results) : results[j].win_rate <= results[i].win_rate
        /\ \A j \in 1..(i - 1) : results[j].win_rate < results[i].win_rate

\* (mutants) any best result, or one that equals the best so far, replaces
\* the base
improves_always(win_rate, best_win_rate) == TRUE

improves_or_ties(win_rate, best_win_rate) == win_rate >= best_win_rate

\* `if best['win_rate'] > self.best_win_rate`
improves(win_rate, best_win_rate) == win_rate > best_win_rate

\* _log_evolution: the entry appended to the strategy tree file
_log_evolution(ev, result) ==
    [generation |-> ev.generation, win_rate |-> result.win_rate,
     params |-> result.params, trades |-> get(result, "trades", 0),
     sharpe |-> get(result, "sharpe", 0)]

\* select_best(results) on a non-empty list: the evolver after it and the
\* variant it returns.
select_best(ev, results) ==
    LET best == results[max_index(results)]
        after ==
            IF improves(best.win_rate, ev.best_win_rate)
            THEN [ev EXCEPT !.best_win_rate = best.win_rate,
                            !.base_strategy = best.params,
                            !.tree = Append(@, _log_evolution(ev, best))]
            ELSE ev
    IN  [evolver |-> after,
         ret |-> StrategyVariant(best_id(ev.generation), best.params,
                                 best.win_rate, get(best, "trades", 0), "")]

\* A call of generate_variants.
evolver_generate ==
    /\ evolver # NoEvolver
    /\ evolver.calls < MaxEvolverCalls
    /\ \E n \in 0..MaxVariants :
         \E draws \in [1..n -> Draws] :
            LET out == generate_variants(evolver, n, draws)
            IN  evolver' =
                    [out.evolver EXCEPT
                        !.calls = @ + 1,
                        !.issued = @ \cup {out.ret[i].id : i \in 1..n},
                        !.last = [op |-> "generate_variants", n |-> n,
                                  ret |-> out.ret, raised |-> "none",
                                  reissued |-> {out.ret[i].id : i \in 1..n}
                                                  \cap evolver.issued]]
    /\ UNCHANGED <<manager_vars, loop_vars, bt, detector>>

\* A call of select_best; max raises ValueError on an empty list.
evolver_select ==
    /\ evolver # NoEvolver
    /\ evolver.calls < MaxEvolverCalls
    /\ \E results \in SeqsUpTo(Results, MaxResults) :
         IF results = <<>>
         THEN evolver' =
                  [evolver EXCEPT
                      !.calls = @ + 1,
                      !.last = [op |-> "select_best", results |-> results,
                                ret |-> <<>>, raised |-> "ValueError"]]
         ELSE LET out == select_best(evolver, results)
              IN  evolver' =
                      [out.evolver EXCEPT
                          !.calls = @ + 1,
                          !.last = [op |-> "select_best", results |-> results,
                                    ret |-> out.ret, raised |-> "none"]]
    /\ UNCHANGED <<manager_vars, loop_vars, bt, detector>>

\* -------------------------------------------------------- RegimeDetector
\* A score is a fraction num / den with den > 0.
Frac(n, d) == [num |-> n, den |-> d]

FracLess(a, b) == a.num * b.den < b.num * a.den

\* max(...) and min(...) of a non-empty sequence of numbers
MaxOf(seq) ==
    CHOOSE x \in {seq[i] : i \in 1..Len(seq)} : \A i \in 1..Len(seq) : seq[i] <= x

MinOf(seq) ==
    CHOOSE x \in {seq[i] : i \in 1..Len(seq)} : \A i \in 1..Len(seq) : seq[i] >= x

Abs(x) == IF x < 0 THEN -x ELSE x

\* [c['close'] for c in candles[-50:]] and [c['volume'] ...]
closes_of(candles) == [i \in 1..Len(Last(candles, 50)) |-> Last(candles, 50)[i].close]

volumes_of(candles) == [i \in 1..Len(Last(candles, 50)) |-> Last(candles, 50)[i].volume]

\* seq[-50:-20] of a sequence of 50
Previous(seq) == SubSeq(seq, 1, Len(seq) - 20)

\* _trend_signal: 0.5, plus 0.25 for a higher high and 0.25 for a higher
\* low of the last 20 closes against the 30 before
_trend_signal(candles) ==
    LET closes == closes_of(candles)
        higher_high == MaxOf(Last(closes, 20)) > MaxOf(Previous(closes))
        higher_low == MinOf(Last(closes, 20)) > MinOf(Previous(closes))
    IN  Frac(50 + (IF higher_high THEN 25 ELSE 0) + (IF higher_low THEN 25 ELSE 0),
             100)

\* abs(closes[i] - closes[i-1]) / closes[i-1] divides by zero
_volatility_signal_raises(candles) ==
    \E i \in 1..(Len(closes_of(candles)) - 1) : closes_of(candles)[i] = 0

\* _volatility_signal: 1.0 for a mean relative change below 0.02, 0.0 above
\* 0.05, else 0.5; the relative changes are in millionths, rounded down
_volatility_signal(candles) ==
    LET closes == closes_of(candles)
        changes == [i \in 1..(Len(closes) - 1) |->
                       (Abs(closes[i + 1] - closes[i]) * MICRO) \div closes[i]]
    IN  IF Sum(changes) < 20000 * Len(changes) THEN Frac(100, 100)
        ELSE IF Sum(changes) > 50000 * Len(changes) THEN Frac(0, 100)
        ELSE Frac(50, 100)

\* _momentum_signal: the oscillator of the last 14 changes over 100, and
\* 1.0 without a loss
_momentum_signal(candles) ==
    LET closes == closes_of(candles)
        change(i) == closes[i + 1] - closes[i]
        gains == [i \in 1..(Len(closes) - 1) |->
                     IF change(i) > 0 THEN change(i) ELSE 0]
        losses == [i \in 1..(Len(closes) - 1) |->
                      IF change(i) > 0 THEN 0 ELSE -change(i)]
        gain == Sum(Last(gains, 14))
        loss == Sum(Last(losses, 14))
    IN  IF loss = 0 THEN Frac(1, 1) ELSE Frac(gain, gain + loss)

\* _volume_signal: 1.0 when the mean of the last 20 volumes is above 1.2
\* times the mean of the 30 before, 0.0 when below 0.8 times, else 0.5
_volume_signal(candles) ==
    LET volumes == volumes_of(candles)
        recent == Sum(Last(volumes, 20))
        prev == Sum(Previous(volumes))
    IN  IF recent * 30 * 10 > prev * 20 * 12 THEN Frac(100, 100)
        ELSE IF recent * 30 * 10 < prev * 20 * 8 THEN Frac(0, 100)
        ELSE Frac(50, 100)

\* The signals dict of detect.
signals_of(candles) ==
    [trend |-> _trend_signal(candles),
     volatility |-> _volatility_signal(candles),
     momentum |-> _momentum_signal(candles),
     volume |-> _volume_signal(candles)]

SignalNames == {"trend", "volatility", "momentum", "volume"}

\* sum(signals.values()) / len(signals): three scores are in hundredths
bullish_score_of(signals) ==
    Frac((signals.trend.num + signals.volatility.num + signals.volume.num)
             * signals.momentum.den + 100 * signals.momentum.num,
         4 * 100 * signals.momentum.den)

\* max(signals.values()) - min(signals.values())
confidence_of(signals) ==
    LET hi == CHOOSE a \in SignalNames :
                  \A b \in SignalNames : ~FracLess(signals[a], signals[b])
        lo == CHOOSE a \in SignalNames :
                  \A b \in SignalNames : ~FracLess(signals[b], signals[a])
    IN  Frac(signals[hi].num * signals[lo].den - signals[lo].num * signals[hi].den,
             signals[hi].den * signals[lo].den)

\* self.bull_threshold = 0.6 and self.bear_threshold = 0.4
bull_threshold == Frac(6, 10)

bear_threshold == Frac(4, 10)

\* `if bullish_score > self.bull_threshold ... elif bullish_score <
\* self.bear_threshold ... else`
regime_of(bullish_score) ==
    IF FracLess(bull_threshold, bullish_score) THEN "bull"
    ELSE IF FracLess(bullish_score, bear_threshold) THEN "bear"
    ELSE "chop"

\* (mutant) detect classifies 49 candles
too_few_below_49(candles) == Len(candles) < 49

\* `if len(candles) < 50`
too_few(candles) == Len(candles) < 50

\* (mutant) every classification is a shift
shifts_always(regime, current_regime) == TRUE

\* `if regime != self.current_regime`
shifts(regime, current_regime) == regime # current_regime

\* _log_regime: the entry appended to regime_history (and, as a line, to
\* data/regime_changes.jsonl)
_log_regime(det, regime, score, signals) ==
    [det EXCEPT !.regime_history =
                    Append(@, [regime |-> regime, bullish_score |-> score,
                               confidence |-> det.confidence, signals |-> signals])]

\* RegimeDetector(); transitions counts the detect calls that classified a
\* regime other than current_regime, last tells how the last call ended.
NewDetector ==
    [current_regime |-> "unknown", regime_history |-> <<>>, confidence |-> Frac(0, 1),
     calls |-> 0, transitions |-> 0, last |-> NoCall]

\* The candle sequences handed to detect, by length and by the course of
\* their closes and volumes.
\* The close of candle i of n.
close_at(pattern, i, n) ==
    CASE pattern = "flat" -> 100
      [] pattern = "zero" -> 0
      [] pattern = "rise" -> 100 + i
      [] pattern = "fall" -> 200 - i
      [] pattern = "calm" -> IF i % 2 = 0 THEN 101 ELSE 100
      [] pattern = "rough" -> IF i % 2 = 0 THEN 103 ELSE 100
      [] pattern = "wild" -> IF i % 2 = 0 THEN 110 ELSE 100
      [] pattern = "sag" -> 200 - (i \div 2) - (IF i % 2 = 0 THEN 0 ELSE 3)
      [] pattern = "shelf" ->
             IF i <= n - 15
             THEN 100
             ELSE LET j == i - (n - 15)
                  IN  10 + ((j - 1) \div 2) + (IF j % 2 = 0 THEN 3 ELSE 0)

\* The volume of candle i of n.
volume_at(pattern, i, n) ==
    CASE pattern = "flat" -> 1000
      [] pattern = "surge" -> IF i <= n - 20 THEN 1000 ELSE 1300
      [] pattern = "fade" -> IF i <= n - 20 THEN 1000 ELSE 700

Input(n, closes, volumes) == [n |-> n, closes |-> closes, volumes |-> volumes]

DetectorInputs ==
    {Input(0, "flat", "flat"), Input(49, "rise", "surge"), Input(49, "zero", "flat"),
     Input(50, "rise", "surge"), Input(50, "fall", "fade"), Input(50, "flat", "flat"),
     Input(50, "wild", "fade"), Input(50, "rough", "flat"), Input(50, "sag", "flat"),
     Input(50, "shelf", "flat"), Input(50, "zero", "flat"), Input(50, "calm", "flat"),
     Input(51, "rise", "surge"), Input(51, "wild", "fade")}

candles_of(input) ==
    [i \in 1..input.n |->
        [close |-> close_at(input.closes, i, input.n),
         volume |-> volume_at(input.volumes, i, input.n)]]

\* Lines 25-41 of detect: the signals, the score, the confidence and the
\* regime of a sequence of 50 candles or more, or the exception raised.
classify(candles) ==
    IF _volatility_signal_raises(candles)
    THEN [raised |-> "ZeroDivisionError"]
    ELSE LET signals == signals_of(candles)
         IN  [raised |-> "none",
              signals |-> signals,
              bullish_score |-> bullish_score_of(signals),
              confidence |-> confidence_of(signals),
              regime |-> regime_of(bullish_score_of(signals))]

\* classify of the sequences long enough, computed once.
classified ==
    [input \in {x \in DetectorInputs : ~too_few(candles_of(x))} |->
        classify(candles_of(input))]

\* detect(candles_of(input)): the detector after it, what it returns, what
\* it raises.
detect(det, input) ==
    IF too_few(candles_of(input))
    THEN [detector |-> det, ret |-> "unknown", raised |-> "none"]
    ELSE IF classified[input].raised # "none"
    THEN [detector |-> det, ret |-> "", raised |-> classified[input].raised]
    ELSE LET c == classified[input]
             scored == [det EXCEPT !.confidence = c.confidence]
         IN  [detector |->
                  IF shifts(c.regime, det.current_regime)
                  THEN _log_regime([scored EXCEPT !.current_regime = c.regime],
                                   c.regime, c.bullish_score, c.signals)
                  ELSE scored,
              ret |-> c.regime,
              raised |-> "none"]

\* The `strategies` dict of get_strategy_for_regime; vol_mult and
\* position_size in hundredths.
strategies ==
    [bull |-> [bias |-> "long", rsi_low |-> 55, rsi_high |-> 65,
               vol_mult |-> 130, position_size |-> 15],
     bear |-> [bias |-> "short", rsi_low |-> 40, rsi_high |-> 50,
               vol_mult |-> 150, position_size |-> 8],
     chop |-> [bias |-> "neutral", rsi_low |-> 50, rsi_high |-> 55,
               vol_mult |-> 180, position_size |-> 5],
     unknown |-> [bias |-> "neutral", rsi_low |-> 57, rsi_high |-> 63,
                  vol_mult |-> 138, position_size |-> 0]]

\* `strategies.get(self.current_regime, strategies['unknown'])`
get_strategy_for_regime(det) ==
    IF det.current_regime \in DOMAIN strategies
    THEN strategies[det.current_regime]
    ELSE strategies["unknown"]

\* A call of detect.
detector_detect ==
    /\ detector # NoDetector
    /\ detector.calls < MaxDetects
    /\ \E input \in DetectorInputs :
         LET out == detect(detector, input)
             differs == /\ out.raised = "none"
                        /\ input.n >= 50
                        /\ out.ret # detector.current_regime
         IN  detector' =
                 [out.detector EXCEPT
                     !.calls = @ + 1,
                     !.transitions = IF differs THEN @ + 1 ELSE @,
                     !.last = [op |-> "detect", input |-> input,
                               ret |-> out.ret, raised |-> out.raised]]
    /\ UNCHANGED <<manager_vars, loop_vars, bt, evolver>>

\* ----------------------------------------------------------- specifications

Step(t) ==
    \/ open_position(t)
    \/ buy_quote_return(t)
    \/ buy_swap_return(t)
    \/ close_position(t)
    \/ sell_quote_return(t)
    \/ sell_swap_return(t)
    \/ check_positions(t)
    \/ price_response(t)
    \/ check_prices_return(t)

\* Calls that each run to completion before the next one starts.
Next == Step(MainTask)

Spec == Init /\ [][Next]_vars

\* Calls of several tasks, interleaved at their suspension points.
NextConc == \E t \in Tasks : Step(t)

SpecConc == Init /\ [][NextConc]_vars

\* A manager constructed from whatever file it finds, damaged ones too.
InitCrash ==
    /\ state_file \in InitialStateFiles \cup DamagedStateFiles
    /\ __init__
    /\ LoopsNotStarted
    /\ Unused({"bt", "evolver", "detector"})

\* Calls one at a time, the process dying in a snapshot write, restarts.
NextCrash ==
    \/ Step(MainTask)
    \/ crash_in_save(MainTask)
    \/ crash_after_log(MainTask)
    \/ restart

SpecCrash == InitCrash /\ [][NextCrash]_vars

\* The bot's loops, for a manager without a snapshot.
InitLoop ==
    /\ state_file = NoFile
    /\ __init__
    /\ LoopsNotStarted
    /\ Unused({"bt", "evolver", "detector"})

NextLoop ==
    \/ start
    \/ stop
    \/ \E l \in Loops : LoopStep(l)

\* The event loop runs every coroutine that can run: a body ends, a sleep
\* returns, the loop's test is made.
\* One call of BacktestEngine.run.
InitBacktest ==
    /\ state_file = NoFile
    /\ __init__
    /\ LoopsNotStarted
    /\ bt \in BacktestRuns
    /\ Unused({"evolver", "detector"})

NextBacktest ==
    \/ run_candle
    \/ run_return

SpecBacktest == InitBacktest /\ [][NextBacktest]_vars

\* Calls of run, one after the other, on one engine.
NextRerun ==
    \/ run_candle
    \/ run_return
    \/ run_again

SpecRerun == InitBacktest /\ [][NextRerun]_vars

\* One call of _calculate_rsi or of _check_signal.
InitSignal ==
    /\ state_file = NoFile
    /\ __init__
    /\ LoopsNotStarted
    /\ bt \in RsiCalls \cup SignalCalls
    /\ Unused({"evolver", "detector"})

NextSignal ==
    \/ rsi_return
    \/ signal_return

SpecSignal == InitSignal /\ [][NextSignal]_vars

\* Calls on one StrategyEvolver.
InitEvolver ==
    /\ state_file = NoFile
    /\ __init__
    /\ LoopsNotStarted
    /\ evolver = NewEvolver
    /\ Unused({"bt", "detector"})

NextEvolver ==
    \/ evolver_generate
    \/ evolver_select

SpecEvolver == InitEvolver /\ [][NextEvolver]_vars

\* Calls of detect on one RegimeDetector.
InitDetector ==
    /\ state_file = NoFile
    /\ __init__
    /\ LoopsNotStarted
    /\ detector = NewDetector
    /\ Unused({"bt", "evolver"})

NextDetector == detector_detect

SpecDetector == InitDetector /\ [][NextDetector]_vars

SpecLoop ==
    /\ InitLoop
    /\ [][NextLoop]_vars
    /\ WF_vars(start)
    /\ \A l \in Loops : WF_vars(LoopStep(l))


\* ------------------------------------------------------------ properties

\* What a call that fails must leave alone: the position set, the trade
\* history, the snapshot and the trade log.
StateUnchanged ==
    /\ positions' = positions
    /\ trade_history' = trade_history
    /\ state_file' = state_file
    /\ trades_file' = trades_file

\* Task t starts a call that ends in the same step.
ImmediateCall(t) ==
    /\ calls' = calls + 1
    /\ pc[t] = "idle"
    /\ pc'[t] = "idle"

LastRecord(history) == history[Len(history)]

\* history1 is history with exactly one record appended.
OneAppended(history, history1) ==
    /\ Len(history1) = Len(history) + 1
    /\ SubSeq(history1, 1, Len(history)) = history

\* C1: open_position for an instrument that is already open never goes on to
\* the buy; it ends at once, returning None, with the position set (same
\* entries, same fields), the trade history and the snapshot unchanged and
\* without a quote requested from the swap executor.
C1_DuplicateOpenRejected ==
    [][\A t \in Tasks :
          /\ (pc[t] = "idle" /\ pc'[t] = "buy_quote")
                => ~dict_contains(positions, frame'[t].mint)
          /\ (/\ ImmediateCall(t)
              /\ log'[t].msg \in {"already_have_position", "max_positions"}
              /\ dict_contains(positions, log'[t].mint))
                => /\ ret'[t] = ReturnNone
                   /\ StateUnchanged
                   /\ quote_requests' = quote_requests
                   /\ executed' = executed]_vars

C1_Witness ==
    \E t \in Tasks :
        /\ log[t].msg = "already_have_position"
        /\ ret[t] = ReturnNone
        /\ dict_contains(positions, log[t].mint)
        /\ quote_requests = 0

\* C2: from a position set of at most MAX_SIMULTANEOUS_POSITIONS entries, no
\* call that runs to completion before the next starts takes the number of
\* open positions above the maximum: open_position goes on to the buy only
\* below the maximum, and at the maximum it returns None and changes nothing.
C2_PositionLimit ==
    [][/\ Len(positions) <= MAX_SIMULTANEOUS_POSITIONS
          => Len(positions') <= MAX_SIMULTANEOUS_POSITIONS
       /\ \A t \in Tasks :
             /\ (pc[t] = "idle" /\ pc'[t] = "buy_quote")
                   => Len(positions) < MAX_SIMULTANEOUS_POSITIONS
             /\ (/\ ImmediateCall(t)
                 /\ log'[t].msg = "max_positions")
                   => /\ Len(positions) >= MAX_SIMULTANEOUS_POSITIONS
                      /\ ret'[t] = ReturnNone
                      /\ StateUnchanged
                      /\ quote_requests' = quote_requests]_vars

C2_Witness ==
    \E t \in Tasks :
        /\ log[t].msg = "max_positions"
        /\ ret[t] = ReturnNone
        /\ ~dict_contains(positions, log[t].mint)
        /\ Len(positions) = MAX_SIMULTANEOUS_POSITIONS
        /\ Len(trade_history) = 1

\* The records of the trade log with the given action for the mint.
Records(action, mint) ==
    {i \in 1..Len(trades_file) :
        trades_file[i].action = action /\ trades_file[i].mint = mint}

\* C3: overlapping open_position calls for one instrument open it once: no
\* instrument has two OPEN records in the trade log without a CLOSE between
\* them (one buy, one record, no position written over another).
C3_NoDuplicateOpen ==
    \A mint \in Mints :
        Cardinality(Records("OPEN", mint))
            <= Cardinality(Records("CLOSE", mint)) + 1

\* Task t's step ends _execute_sell with None.
SellFailedStep(t) ==
    \/ pc[t] = "sell_quote" /\ pc'[t] # "sell_swap" /\ frame'[t] # frame[t]
    \/ pc[t] = "sell_swap" /\ pc'[t] # "sell_swap" /\ executed' = executed

\* C4: when the sell inside close_position fails, the call returns None and
\* the position set, the position's fields (realized_pnl too), the trade
\* history and the snapshot are unchanged; the position is still open, and
\* close_position turns a caller away with "no position" only for an
\* instrument that is not open, so a later close of it is attempted.
C4_FailedSellLeavesState ==
    [][\A t \in Tasks :
          /\ (SellFailedStep(t) /\ frame[t].op = "close_position")
                => /\ ret'[t] = ReturnNone
                   /\ pc'[t] = "idle"
                   /\ StateUnchanged
                   /\ dict_contains(positions', frame[t].mint)
          /\ (SellFailedStep(t) /\ frame[t].op = "check_positions")
                => /\ dict_contains(positions', frame[t].mint)
                   /\ dict_getitem(positions', frame[t].mint)
                         = dict_getitem(positions, frame[t].mint)
                   /\ trade_history' = trade_history
                   /\ state_file' = state_file
          /\ (ImmediateCall(t) /\ log'[t].msg = "no_position")
                => ~dict_contains(positions, log'[t].mint)]_vars

C4_Witness ==
    \E t \in Tasks :
        /\ log[t].msg = "sell_failed"
        /\ ret[t] = ReturnNone
        /\ dict_contains(positions, log[t].mint)
        /\ dict_getitem(positions, log[t].mint).realized_pnl_usd = 0
        /\ trade_history = <<>>
        /\ pc[t] = "sell_quote"
        /\ frame[t].op = "close_position"
        /\ frame[t].mint = log[t].mint

\* C5: when the sell of close_position succeeds with amount R for an open
\* instrument, exactly one record is appended to the trade history, a CLOSE
\* of that instrument with pnl R - position_size_usdc and the call's reason;
\* the instrument leaves the open set and the snapshot written does not hold
\* it; a direct caller gets R.
C5_CloseRecordsPnl ==
    [][\A t \in Tasks :
          (/\ pc[t] = "sell_swap"
           /\ executed' # executed
           /\ dict_contains(positions, frame[t].mint))
             => LET mint == frame[t].mint
                    position == dict_getitem(positions, mint)
                    R == quote_outAmount(frame[t].quote) \div UNITS
                    record == LastRecord(trade_history')
                IN  /\ OneAppended(trade_history, trade_history')
                    /\ record.action = "CLOSE"
                    /\ record.mint = mint
                    /\ record.pnl_usd = R - position.position_size_usdc
                    /\ record.reason = frame[t].reason
                    /\ ~dict_contains(positions', mint)
                    /\ Len(positions') = Len(positions) - 1
                    /\ state_file'.exists
                    /\ \A i \in 1..Len(state_file'.positions) :
                          state_file'.positions[i]["mint"] # mint
                    /\ frame[t].op = "close_position"
                          => ret'[t] = Return("float", R)]_vars

C5_Witness ==
    \E t \in Tasks :
        /\ log[t].msg = "position_closed"
        /\ ret[t].kind = "float"
        /\ ret[t].value = 60
        /\ ~dict_contains(positions, log[t].mint)
        /\ trade_history # <<>>
        /\ LastRecord(trade_history).action = "CLOSE"
        /\ LastRecord(trade_history).mint = log[t].mint
        /\ LastRecord(trade_history).pnl_usd = 40
        /\ LastRecord(trade_history).reason = "manual"

\* Task t's step ends _execute_buy with None or with a fill <= 0.
BuyFailedStep(t) ==
    \/ pc[t] = "buy_quote" /\ pc'[t] = "idle"
    \/ /\ pc[t] = "buy_swap"
       /\ pc'[t] = "idle"
       /\ executed' = executed \/ quote_outAmount(frame[t].quote) <= 0

\* C6: when the buy returns None or a filled amount <= 0, open_position
\* returns None and leaves the position set, the trade history and the
\* snapshot unchanged.
C6_FailedBuyLeavesState ==
    [][\A t \in Tasks :
          BuyFailedStep(t)
             => /\ ret'[t] = ReturnNone
                /\ log'[t] = Log("buy_failed", frame[t].mint)
                /\ StateUnchanged]_vars

C6_Witness ==
    \E t \in Tasks :
        /\ log[t].msg = "buy_failed"
        /\ ret[t] = ReturnNone
        /\ executed["buy"][log[t].mint] = 1
        /\ ~dict_contains(positions, log[t].mint)
        /\ trade_history = <<>>

\* Task t's step ends _execute_buy with a fill > 0.
BuySucceededStep(t) ==
    /\ pc[t] = "buy_swap"
    /\ executed' # executed
    /\ quote_outAmount(frame[t].quote) > 0

\* C7: when the buy of open_position succeeds for an absent instrument, the
\* open set gains exactly that instrument, with size the smaller of the
\* desired amount and the configured maximum and with current price = entry
\* price = the call's price; exactly one record, an OPEN of the instrument,
\* is appended to the trade history; the snapshot written has the positions
\* of the open set, field by field; a call that returns returns the position.
C7_OpenRecordsPosition ==
    [][\A t \in Tasks :
          (BuySucceededStep(t) /\ ~dict_contains(positions, frame[t].mint))
             => LET position == positions'[Len(positions')]
                    amount_usdc == frame[t].amount_usdc
                    record == LastRecord(trade_history')
                IN  /\ OneAppended(positions, positions')
                    /\ position.mint = frame[t].mint
                    /\ position.position_size_usdc =
                          (IF amount_usdc <= MAX_POSITION_SIZE_USDC
                           THEN amount_usdc ELSE MAX_POSITION_SIZE_USDC)
                    /\ position.entry_price_usd = frame[t].price_usd
                    /\ position.current_price_usd = position.entry_price_usd
                    /\ position.realized_pnl_usd = 0
                    /\ OneAppended(trade_history, trade_history')
                    /\ record.action = "OPEN"
                    /\ record.mint = frame[t].mint
                    /\ state_file'.exists
                    /\ Len(state_file'.positions) = Len(positions')
                    /\ \A i \in 1..Len(positions'), f \in PositionFields :
                          state_file'.positions[i][f] = positions'[i][f]
                    /\ ret'[t].kind # "raise"
                          => ret'[t] = Return("Position", position)]_vars

C7_Witness ==
    \E t \in Tasks :
        /\ log[t].msg = "position_opened"
        /\ ret[t].kind = "Position"
        /\ ret[t].value.position_size_usdc = MAX_POSITION_SIZE_USDC
        /\ positions # <<>>
        /\ positions[Len(positions)] = ret[t].value
        /\ trade_history # <<>>
        /\ LastRecord(trade_history).action = "OPEN"
        /\ LastRecord(trade_history).mint = log[t].mint
        /\ state_file.positions = positions

\* C8: check_positions returns normally: a call of it that ends ends with a
\* list, never with an exception.
C8_CheckReturnsActions ==
    [][\A t \in Tasks :
          (frame[t].op = "check_positions" /\ pc[t] # "idle" /\ pc'[t] = "idle")
             => ret'[t].kind = "list"]_vars

\* C9: while check_positions closes a position, its reason is stop_loss
\* whenever the refreshed price is at or below the stop loss, also when the
\* price is at or above the take profit too; the reason is take_profit only
\* for a price at or above the take profit and above the stop loss.
C9_StopLossFirst ==
    \A t \in Tasks :
        (frame[t].op = "check_positions" /\ pc[t] \in {"sell_quote", "sell_swap"})
           => LET position == frame[t].position
                  price == position.current_price_usd
              IN  /\ frame[t].reason \in {"stop_loss", "take_profit"}
                  /\ price = frame[t].prices[frame[t].mint]
                  /\ price <= position.stop_loss_price
                        => frame[t].reason = "stop_loss"
                  /\ frame[t].reason = "take_profit"
                        => /\ price >= position.take_profit_price
                           /\ price > position.stop_loss_price

C9_Witness ==
    \E t \in Tasks :
        /\ frame[t].op = "check_positions"
        /\ pc[t] = "sell_swap"
        /\ frame[t].position.current_price_usd <= frame[t].position.stop_loss_price
        /\ frame[t].position.current_price_usd >= frame[t].position.take_profit_price
        /\ frame[t].reason = "stop_loss"

\* The positions of d whose mint has no price in prices.
Unpriced(d, prices) == {i \in 1..Len(d) : d[i].mint \notin DOMAIN prices}

\* C10: in check_positions a position whose mint is missing from the price
\* result keeps every field, current_price_usd too, and is not the position
\* the call goes on to close, whatever its last known price; every call asks
\* the price of every open position, so the mint is looked up again.
C10_MissingPriceSkipped ==
    [][\A t \in Tasks :
          /\ pc[t] = "check_resume"
                => LET mints == {frame[t].mints[i] : i \in 1..Len(frame[t].mints)}
                       prices == get_token_prices(mints, http[t].status,
                                                  http[t].data)
                   IN  \A i \in Unpriced(positions, prices) :
                          /\ i <= Len(positions')
                          /\ positions'[i] = positions[i]
                          /\ pc'[t] = "sell_quote"
                                => frame'[t].mint # positions[i].mint
          /\ (frame[t].op = "check_positions" /\ pc[t] \in {"sell_quote", "sell_swap"})
                => \A i \in Unpriced(positions, frame[t].prices) :
                      /\ dict_contains(positions', positions[i].mint)
                      /\ dict_getitem(positions', positions[i].mint) = positions[i]
                      /\ pc'[t] = "sell_quote"
                            => frame'[t].mint # positions[i].mint
          /\ (pc[t] = "idle" /\ pc'[t] = "check_prices")
                => frame'[t].mints = dict_keys(positions)]_vars

C10_Witness ==
    \E t \in Tasks :
        /\ pc[t] = "check_prices"
        /\ calls = 2
        /\ ret[t] = Return("list", <<>>)
        /\ quote_requests = 0
        /\ \E i \in 1..Len(positions) :
              /\ positions[i].current_price_usd <= positions[i].stop_loss_price
              /\ frame[t].mints[i] = positions[i].mint

\* The snapshot holds the positions of d, in d's order, field by field.
SnapshotEquals(file, d) ==
    /\ Len(file.positions) = Len(d)
    /\ \A i \in 1..Len(d), f \in PositionFields : file.positions[i][f] = d[i][f]

\* C11: whenever no operation of the manager is in progress the snapshot
\* file holds the in-memory position set field for field, current_price_usd
\* too.
C11_SnapshotMatchesMemory ==
    (\A t \in Tasks : pc[t] = "idle") => SnapshotEquals(state_file, positions)

C15_LevelsAroundEntry ==
    [][\A t \in Tasks :
          BuySucceededStep(t)
             => LET position == dict_getitem(positions', frame[t].mint)
                IN  /\ position.stop_loss_price < position.entry_price_usd
                    /\ position.entry_price_usd < position.take_profit_price]_vars

\* The file is missing, is not JSON, or holds a record from_dict raises on.
Damaged(file) ==
    \/ ~file.exists
    \/ ~file.parseable
    \/ \E i \in 1..Len(file.positions) : from_dict_raises(file.positions[i])

\* The manager was constructed and has not finished a call yet.
JustConstructed ==
    \A t \in Tasks : pc[t] = "idle" /\ ret[t] = NoReturn

\* C13: a manager constructed from a missing file, from a file that is not
\* parseable or from one with a record that cannot be deserialized has an
\* empty position set.
C13_DamagedFileLoadsEmpty ==
    (JustConstructed /\ Damaged(state_file)) => positions = <<>>

\* C14: after a crash during a snapshot write the file is a complete
\* snapshot, and the manager constructed by the restart has every position
\* that was open before the operation that wrote and was still open when the
\* write began.
C14_CrashKeepsSnapshot ==
    [][(pc[MainTask] = "crashed" /\ pc'[MainTask] = "idle")
          => /\ state_file.parseable
             /\ \A i \in 1..Len(positions) :
                   positions[i].mint # frame[MainTask].mint
                      => dict_contains(positions', positions[i].mint)]_vars

\* C16: while the bot is running, a loop whose body raised an exception in
\* one of its cycles starts a later cycle (as long as the bound on cycles
\* leaves one), unless the bot is stopped.
C16_LoopSurvivesException ==
    \A l \in Loops, k \in 1..(MaxCycles - 1) :
        (running /\ loops[l].at = "raised" /\ loops[l].cycles = k)
            ~> (~running \/ (loops[l].at = "try" /\ loops[l].cycles = k + 1))

C16_Witness ==
    /\ running
    /\ \A l \in Loops : loops[l].cycles = MaxCycles
    /\ loops["position_check"].at = "raised"
    /\ loops["scan"].at = "try"

\* The signal of the candle run processed last.
LastSignal ==
    _check_signal(bt.candles[bt.st.i], bt.strategy,
                  SubSeq(bt.candles, 1, bt.st.i - 1))

\* What the locals of run were before the candle processed last.
Before == run_from_to(RunStart, bt.candles, bt.strategy, bt.st.i - 1)

\* C17: a backtest run never holds more than one open position: a candle
\* processed while a position is open opens nothing and leaves the position
\* as it was or closes it, and entries and exits alternate from an entry on
\* (the entries are the exits, plus one while a position is open).
C17_SinglePosition ==
    [][LET st == bt.st
           after == bt'.st
       IN  /\ st.position.type = "long" =>
                 /\ after.entries = st.entries
                 /\ after.position \in {st.position, NoBacktestPosition}
           /\ after.entries = Len(after.trades)
                                 + (IF after.position.type = "long" THEN 1 ELSE 0)
           /\ Len(after.trades) \in {Len(st.trades), Len(st.trades) + 1}]_vars

\* A BUY signal at another close arrived while the position was open, and
\* the position is still the one entered before.
C17_Witness ==
    /\ bt.st.i >= 2
    /\ bt.st.raised = "none"
    /\ LastSignal = "BUY"
    /\ Before.position.type = "long"
    /\ bt.st.position = Before.position
    /\ bt.st.position.entry # entry_price(bt.candles[bt.st.i])

\* C18: a candle processed while a position is open whose low is at or
\* below the stop and whose high is at or above the take profit records
\* exactly one exit, of type SL at the stop price, and closes the position.
C18_StopLossWinsTie ==
    [][LET st == bt.st
           after == bt'.st
           candle == bt.candles[st.i + 1]
       IN  (/\ after.i = st.i + 1
            /\ st.position.type = "long"
            /\ candle.low <= st.position.sl
            /\ candle.high >= st.position.tp) =>
               /\ Len(after.trades) = Len(st.trades) + 1
               /\ SubSeq(after.trades, 1, Len(st.trades)) = st.trades
               /\ after.trades[Len(after.trades)].type = "SL"
               /\ after.trades[Len(after.trades)].exit = st.position.sl
               /\ after.trades[Len(after.trades)].timestamp = candle.time
               /\ after.position = NoBacktestPosition]_vars

\* The candle processed last reached both exit levels of the open position
\* and one trade was recorded for it.
C18_Witness ==
    /\ bt.st.i >= 2
    /\ Before.position.type = "long"
    /\ bt.candles[bt.st.i].low <= Before.position.sl
    /\ bt.candles[bt.st.i].high >= Before.position.tp
    /\ Len(bt.st.trades) = Len(Before.trades) + 1
    /\ bt.st.trades[Len(bt.st.trades)].timestamp = bt.st.i

\* The win rate of a returned result is 0 without trades and
\* winning_trades / total_trades otherwise, with the wins within the trades.
WinRateOfResult ==
    bt.status = "returned" =>
        LET r == bt.result
        IN  /\ r.total_trades = Len(r.trades)
            /\ 0 <= r.winning_trades /\ r.winning_trades <= r.total_trades
            /\ r.total_trades = 0 => r.win_rate.num = 0
            /\ r.total_trades > 0 =>
                  r.win_rate.num * r.total_trades = r.winning_trades * r.win_rate.den

\* C19: for every candle sequence and strategy run returns a win rate of 0
\* without trades and of winning_trades / total_trades otherwise, and no
\* run divides by zero.
C19_WinRateNoDivisionByZero ==
    /\ bt.st.raised # "ZeroDivisionError"
    /\ WinRateOfResult

\* The strategy fields run never reads, and values to give them.
UnreadFields == {"stop_atr_mult", "tp_percent", "vol_lookback"}

UnreadValues == {2, 5}

\* The strategies that differ from strategy only in the unread fields.
Variations(strategy) ==
    UNION {{[k \in DOMAIN strategy \cup keys |->
                IF k \in keys THEN v[k] ELSE strategy[k]] :
               v \in [keys -> UnreadValues]} : keys \in SUBSET UnreadFields}

\* C20: runs over the same candles whose strategies differ only in
\* stop_atr_mult, tp_percent or vol_lookback end alike, with identical
\* results, and every open position has its stop at entry x 0.85 and its
\* take profit at entry x 1.30.
C20_ExitBandIgnoresStrategy ==
    /\ bt.st.position.type = "long" =>
          /\ bt.st.position.sl * 100 = bt.st.position.entry * 85
          /\ bt.st.position.tp * 100 = bt.st.position.entry * 130
    /\ bt.status # "running" =>
          \A v \in Variations(bt.strategy) :
              /\ run_from(RunStart, bt.candles, v).status = bt.status
              /\ run_from(RunStart, bt.candles, v).result = bt.result

\* A run returned with a trade that left at one of the two fixed levels,
\* under a strategy that has variations.
C20_Witness ==
    /\ bt.status = "returned"
    /\ bt.result.total_trades >= 1
    /\ \E k \in 1..Len(bt.result.trades) :
          \/ bt.result.trades[k].exit * 100 = bt.result.trades[k].entry * 85
          \/ bt.result.trades[k].exit * 100 = bt.result.trades[k].entry * 130
    /\ Cardinality(Variations(bt.strategy)) > 1

\* A call of _calculate_rsi has returned.
RsiReturned == bt.op = "_calculate_rsi" /\ bt.status = "returned"

\* C21: for fewer than period + 1 candles, the empty sequence included, the
\* oscillator is exactly 50, whatever the closes.
C21_ShortHistoryIsNeutral ==
    (RsiReturned /\ Len(bt.candles) < bt.period + 1) =>
        bt.value = [num |-> 50, den |-> 1]

\* The oscillator returned for a short sequence whose closes fall.
C21_Witness ==
    /\ RsiReturned
    /\ bt.period = 2
    /\ Len(bt.candles) = 2
    /\ bt.candles[2].close < bt.candles[1].close

\* The trailing period close-to-close changes of the candles hold no loss.
NoTrailingLoss ==
    \A i \in (Len(bt.candles) - bt.period)..(Len(bt.candles) - 1) :
        bt.candles[i + 1].close >= bt.candles[i].close

\* C22: for at least period + 1 candles whose trailing period changes hold
\* no loss (all gains, or all closes equal) the oscillator is exactly 100.
C22_NoLossIsHundred ==
    (RsiReturned /\ Len(bt.candles) >= bt.period + 1 /\ NoTrailingLoss) =>
        bt.value = [num |-> 100, den |-> 1]

\* The oscillator returned for candles with an earlier loss whose trailing
\* closes are all equal.
C22_Witness ==
    /\ RsiReturned
    /\ Len(bt.candles) >= bt.period + 1
    /\ NoTrailingLoss
    /\ \A i \in (Len(bt.candles) - bt.period)..(Len(bt.candles) - 1) :
          bt.candles[i + 1].close = bt.candles[i].close
    /\ \E i \in 1..(Len(bt.candles) - 1) :
          bt.candles[i + 1].close < bt.candles[i].close

\* A call of _check_signal has returned.
SignalReturned == bt.op = "_check_signal" /\ bt.status = "returned"

\* The oscillator of the history with the candle lies within
\* [rsi_low, rsi_high].
OscillatorInBand ==
    LET rsi == _calculate_rsi(Append(bt.history, bt.candle),
                              get(bt.strategy, "rsi_period", 14))
    IN  /\ get(bt.strategy, "rsi_low", 57) * rsi.den <= rsi.num
        /\ rsi.num <= get(bt.strategy, "rsi_high", 63) * rsi.den

\* The volume of the candle is above vol_mult times the average volume of
\* the previous 20 candles, or times its own volume when there are fewer.
VolumeSurge ==
    LET n == Len(bt.history)
        vol_mult == get(bt.strategy, "vol_mult", 138)
    IN  IF n >= 20
        THEN bt.candle.volume * 100 * 20
                 > Sum([i \in 1..20 |-> bt.history[n - 20 + i].volume]) * vol_mult
        ELSE bt.candle.volume * 100 > bt.candle.volume * vol_mult

\* C23 (as stated): for every candle and every history, the empty one
\* included, the signal is BUY exactly when the oscillator is within
\* [rsi_low, rsi_high] and the volume is above vol_mult times the average
\* volume, and HOLD otherwise.
C23_BuyIffBandAndSurge ==
    SignalReturned =>
        /\ bt.value \in {"BUY", "HOLD"}
        /\ bt.value = "BUY" <=> (OscillatorInBand /\ VolumeSurge)

\* C23 (amended): the signal is BUY exactly when the history is not empty,
\* the oscillator is within [rsi_low, rsi_high] and the volume is above
\* vol_mult times the average volume, and HOLD otherwise; without history
\* it is HOLD.
C23_BuyIffHistoryBandAndSurge ==
    SignalReturned =>
        /\ bt.value \in {"BUY", "HOLD"}
        /\ bt.value = "BUY" <=>
              (bt.history # <<>> /\ OscillatorInBand /\ VolumeSurge)

\* A BUY over a history of 20 candles or more whose average volume is not
\* the volume of the candle.
C23_Witness ==
    /\ SignalReturned
    /\ bt.value = "BUY"
    /\ Len(bt.history) >= 20
    /\ \E i \in 1..Len(bt.history) : bt.history[i].volume # bt.candle.volume

\* C24: across the select_best and generate_variants calls on one evolver
\* best_win_rate never decreases.
C24_BestWinRateMonotonic ==
    [][evolver'.best_win_rate >= evolver.best_win_rate]_vars

\* select_best has returned a best result below the best win rate reached
\* earlier, after a generate_variants call.
C24_Witness ==
    /\ evolver.last.op = "select_best"
    /\ evolver.last.raised = "none"
    /\ evolver.last.ret.win_rate < evolver.best_win_rate
    /\ evolver.generation >= 1

\* select_best has returned a variant.
SelectReturned == evolver.last.op = "select_best" /\ evolver.last.raised = "none"

\* C25: select_best on a non-empty list returns a variant with the win rate
\* and the params of the earliest result of maximal win rate.
C25_FirstMaximumSelected ==
    SelectReturned =>
        LET results == evolver.last.results
            variant == evolver.last.ret
        IN  \E i \in 1..Len(results) :
               /\ \A j \in 1..Len(results) :
                     results[j].win_rate <= results[i].win_rate
               /\ \A j \in 1..(i - 1) : results[j].win_rate # results[i].win_rate
               /\ variant.win_rate = results[i].win_rate
               /\ variant.params = results[i].params

\* Two results of different params share the maximum.
C25_Witness ==
    /\ SelectReturned
    /\ Len(evolver.last.results) = 2
    /\ evolver.last.results[1].win_rate = evolver.last.results[2].win_rate
    /\ evolver.last.results[1].params # evolver.last.results[2].params
    /\ evolver.last.ret.params = evolver.last.results[1].params

\* The largest win rate of a non-empty list of results.
MaxWinRate(results) ==
    CHOOSE w \in {results[i].win_rate : i \in 1..Len(results)} :
        \A i \in 1..Len(results) : results[i].win_rate <= w

C27_GenerationIds ==
    [][evolver'.last.op = "generate_variants" =>
         LET n == evolver'.last.n
             variants == evolver'.last.ret
         IN  /\ Len(variants) = n
             /\ evolver'.generation = evolver.generation + 1
             /\ evolver'.base_strategy = evolver.base_strategy
             /\ evolver'.best_win_rate = evolver.best_win_rate
             /\ \A i \in 1..n :
                   /\ variants[i].id.prefix = "v"
                   /\ variants[i].id.generation = evolver.generation
                   /\ variants[i].id.i = i - 1
                   /\ variants[i].id \notin evolver.issued
             /\ \A i \in 1..n, j \in 1..n :
                   variants[i].id = variants[j].id => i = j
             /\ \A id \in evolver.issued : id.generation < evolver.generation]_vars

\* A later generate_variants call has returned variants after earlier calls
\* issued ids, with a select_best call made on the evolver.
C27_Witness ==
    /\ evolver.last.op = "generate_variants"
    /\ evolver.last.n = MaxVariants
    /\ evolver.generation >= 2
    /\ Cardinality(evolver.issued) > MaxVariants
    /\ evolver.best_win_rate > 0

\* C28: detect on fewer than 50 candles returns unknown whatever they hold,
\* raises nothing and appends no entry to the regime log.
C28_ShortSequenceUnknown ==
    [][(detector'.calls = detector.calls + 1 /\ detector'.last.input.n < 50) =>
         /\ detector'.last.ret = "unknown"
         /\ detector'.last.raised = "none"
         /\ detector'.regime_history = detector.regime_history]_vars

\* After an earlier classification, detect has returned unknown for 49
\* candles whose closes are all zero.
C28_Witness ==
    /\ detector.last.op = "detect"
    /\ detector.last.input.n = 49
    /\ detector.last.input.closes = "zero"
    /\ detector.last.ret = "unknown"
    /\ detector.regime_history # <<>>

\* A fraction within [0, 1].
InUnit(f) == f.den > 0 /\ 0 <= f.num /\ f.num <= f.den

\* What detect returned for its candles is the regime of the mean of their
\* four scores, and the scores and the confidence are within [0, 1].
ClassifiedByMean ==
    LET c == classified[detector.last.input]
        mean == bullish_score_of(c.signals)
    IN  /\ detector.last.ret # "unknown"
        /\ detector.last.ret = "bull" <=> FracLess(Frac(6, 10), mean)
        /\ detector.last.ret = "bear" <=> FracLess(mean, Frac(4, 10))
        /\ detector.last.ret = "chop" <=>
              (~FracLess(Frac(6, 10), mean) /\ ~FracLess(mean, Frac(4, 10)))
        /\ \A name \in SignalNames : InUnit(c.signals[name])
        /\ InUnit(detector.confidence)
        /\ detector.confidence = confidence_of(c.signals)

\* C29: for 50 candles or more detect returns bull when the mean of the
\* four scores is above 0.6, bear when it is below 0.4 and chop otherwise,
\* a mean of exactly 0.6 or 0.4 included; it never returns unknown, and the
\* scores and the confidence lie within [0, 1].
C29_RegimeOfMeanScore ==
    (detector.last.op = "detect" /\ detector.last.input.n >= 50) =>
        /\ detector.last.raised = "none"
        /\ ClassifiedByMean

\* The same for the calls that return.
ReturnedRegimeOfMeanScore ==
    (/\ detector.last.op = "detect"
     /\ detector.last.input.n >= 50
     /\ detector.last.raised = "none") => ClassifiedByMean

CheckEnds(t) ==
    /\ frame[t].op = "check_positions"
    /\ pc[t] \in {"check_resume", "sell_quote", "sell_swap"}
    /\ pc'[t] = "idle"

\* The prices the call of task t got from the lookup.
CallPrices(t) ==
    IF pc[t] = "check_resume"
    THEN get_token_prices({frame[t].mints[i] : i \in 1..Len(frame[t].mints)},
                          http[t].status, http[t].data)
    ELSE frame[t].prices

\* The positions of d, open when the call of task t started, whose looked-up
\* price is at or beyond the stop loss or the take profit.
Crossing(t, d) ==
    {i \in 1..Len(d) :
        /\ \E k \in 1..Len(frame[t].mints) : frame[t].mints[k] = d[i].mint
        /\ d[i].mint \in DOMAIN CallPrices(t)
        /\ trigger_of([d[i] EXCEPT
                          !.current_price_usd = CallPrices(t)[d[i].mint]])
               # "none"}

\* C31: when a check_positions call ends, every position that is still open
\* and whose looked-up price crosses its stop loss or take profit had
\* close_position called for it during the call (a call of close_position
\* that raised on its first line counts).
C31_EveryCrossingAttempted ==
    [][\A t \in Tasks :
          CheckEnds(t) =>
              \A i \in Crossing(t, positions') :
                  \/ positions'[i].mint \in frame[t].attempted
                  \/ /\ ret'[t] = Raise("ZeroDivisionError")
                     /\ log'[t].mint = positions'[i].mint]_vars

\* ---------------------------------------------------------------- C32

\* C32: after detect has returned regime r, current_regime is r and
\* get_strategy_for_regime returns the preset of r; after unknown for a
\* sequence too short, the unknown preset with position_size 0.
C32_StrategyOfReturnedRegime ==
    (detector.last.op = "detect" /\ detector.last.raised = "none") =>
        /\ detector.current_regime = detector.last.ret
        /\ get_strategy_for_regime(detector) = strategies[detector.last.ret]

\* ---------------------------------------------------------------- C33

\* history1 is history, or history with one record appended.
Grown(history, history1) ==
    history1 = history \/ OneAppended(history, history1)

\* Task t's step ends a call of open_position or close_position with None.
ReturnsNoneStep(t) ==
    /\ ImmediateCall(t) \/ pc[t] # "idle"
    /\ pc'[t] = "idle"
    /\ ret'[t] = ReturnNone
    /\ log'[t].msg \in {"already_have_position", "max_positions", "buy_failed",
                        "no_position", "sell_failed"}

\* Task t's step ends _execute_sell with the proceeds.
SellSucceededStep(t) == pc[t] = "sell_swap" /\ executed' # executed

\* C33: every step leaves the records of the trade history (and of the
\* trade log file) as they are, in their order, and appends at most one; a
\* record is appended only by the step that ends a call of open_position
\* with the buy done (an OPEN of its instrument, which is then open) or a
\* call of close_position with the sell done (a CLOSE of its instrument,
\* which is then not open), so once per call; a call that returns None
\* appends none.
C33_HistoryAppendOnly ==
    [][/\ Grown(trade_history, trade_history')
       /\ Grown(trades_file, trades_file')
       /\ trade_history' # trade_history =>
              \E t \in Tasks :
                 LET record == LastRecord(trade_history')
                 IN  /\ record = LastRecord(trades_file')
                     /\ record.mint = frame[t].mint
                     /\ pc'[t] # pc[t]
                     /\ \/ /\ BuySucceededStep(t)
                           /\ record.action = "OPEN"
                           /\ dict_contains(positions', record.mint)
                        \/ /\ SellSucceededStep(t)
                           /\ record.action = "CLOSE"
                           /\ ~dict_contains(positions', record.mint)
       /\ \A t \in Tasks :
              (ReturnsNoneStep(t) \/ SellFailedStep(t) \/ BuyFailedStep(t)) =>
                  /\ trade_history' = trade_history
                  /\ trades_file' = trades_file]_vars

\* An OPEN and then a CLOSE were appended, and the call after them was
\* turned away.
C33_Witness ==
    /\ Len(trade_history) = 2
    /\ trade_history[1].action = "OPEN"
    /\ trade_history[2].action = "CLOSE"
    /\ trade_history[2].mint = trade_history[1].mint

\* ---------------------------------------------------------------- C34

C35_LimitUnderOverlap == Len(positions) <= MAX_SIMULTANEOUS_POSITIONS

\* ---------------------------------------------------------------- C36

\* C36: for every instrument the trade log has no more CLOSE records than
\* OPEN records and no more sells were executed than positions of it were
\* opened, also when closes of one instrument overlap; and no close ends
\* with an exception for the instrument being gone.
C36_NoDoubleClose ==
    /\ \A mint \in Mints :
          /\ Cardinality(Records("CLOSE", mint))
                <= Cardinality(Records("OPEN", mint))
          /\ executed["sell"][mint] <= Cardinality(Records("OPEN", mint))
    /\ \A t \in Tasks : ret[t] # Raise("KeyError")

\* ---------------------------------------------------------------- C37

\* The action of the last record of the trade log for the mint, "none"
\* when it has none.
LastAction(file, mint) ==
    LET of_mint == {i \in 1..Len(file) : file[i].mint = mint}
    IN  IF of_mint = {}
        THEN "none"
        ELSE file[CHOOSE i \in of_mint : \A j \in of_mint : j <= i].action

\* C37: the manager constructed after a crash inside open_position or
\* close_position has an instrument open exactly when the last record of
\* the trade log for it is an OPEN.
C37_RestoredSetMatchesLog ==
    [][(pc[MainTask] = "crashed" /\ pc'[MainTask] = "idle")
          => \A mint \in Mints :
                dict_contains(positions', mint)
                    <=> LastAction(trades_file, mint) = "OPEN"]_vars

\* ---------------------------------------------------------------- C38

\* Every volume of the run is non-negative and vol_mult is 1 or more.
NoEarlySurge ==
    /\ get(bt.strategy, "vol_mult", DEFAULT_VOL_MULT) >= 100
    /\ \A i \in 1..Len(bt.candles) : bt.candles[i].volume >= 0

\* C38: with vol_mult >= 1 and no negative volume, run opens no position
\* on a candle of index 0 to 19: a step that enters processes a candle with
\* 20 candles or more before it.
C38_NoEntryInFirstTwenty ==
    [][(NoEarlySurge /\ bt'.st.entries > bt.st.entries)
          => bt.st.i >= VOL_WINDOW]_vars

\* Under such a strategy a position was opened on the candle of index 20,
\* the first with a full volume window behind it.
C38_Witness ==
    /\ NoEarlySurge
    /\ bt.st.i = VOL_WINDOW + 1
    /\ bt.st.entries = 1
    /\ bt.st.position.type = "long"
    /\ run_from_to(RunStart, bt.candles, bt.strategy, VOL_WINDOW).entries = 0

\* ---------------------------------------------------------------- C39

====
